---- MODULE Spec2Model ----
(***************************************************************************)
(* Candidate signal analysis and score calibration core of the interview   *)
(* assistant: calibrateScores / updateQualificationStatus                  *)
(* (src/app/api/analyze-interview/route.ts), analyzeSentiment,             *)
(* smoothEmotionalJourney and the sentiment cache                          *)
(* (src/lib/ai/sentimentAnalysis.ts), detectBias (src/lib/ai/              *)
(* biasDetection.ts), mockAIService.detectBias (src/lib/ai/aiConfig.ts)    *)
(* and detectEmotionalShifts (src/lib/ai/sentimentAnalysis.ts).            *)
(*                                                                         *)
(* Each subsystem has its own specification over the shared variables; a   *)
(* specification leaves the variables of the other subsystems at their     *)
(* idle values.                                                            *)
(***************************************************************************)
EXTENDS Integers, Sequences, FiniteSets, TLC

VARIABLES
  raw,              \* AnalysisResult as parsed from the model, before calibrateScores
  result,           \* the same object after calibrateScores, or None before the call
  prevRaw,          \* input of the previous calibrateScores call, or None
  prevResult,       \* output of the previous calibrateScores call, or None
  journeys,         \* <<x, smooth(x), smooth(smooth(x))>> as far as computed,
                    \* or the trajectories computed for `messages' so far
  journeySource,    \* the function that computed those trajectories
  openaiConfigured, \* isOpenAIConfigured()
  now,              \* Date.now()
  biasText,         \* the text handed to detectBias / mockAIService.detectBias
  biasContext,      \* the context argument of detectBias
  biasReport,       \* the BiasDetectionResult returned, or None before the call
  biasPath,         \* which code path produced biasReport
  messages,         \* the chat history handed to analyzeSentiment
  sentimentResult,  \* the SentimentResult returned, or None before the call
  modelCalls,       \* chat completions requested by that call
  sentimentCache,   \* the Map of the caching layer, as the set of its entries
  calls,            \* the analyzeSentimentWithCache calls made so far
  shiftMessages,    \* the chat history handed to detectEmotionalShifts
  shiftEmotions,    \* the emotions array that call computed, <<>> before it
  shiftReport,      \* the {shifts, significant} returned, or None before the call
  request,          \* the request handed to the analyze-interview handler
  response          \* the response it returned, or None before the call

calVars == <<raw, result, prevRaw, prevResult>>
smoothVars == <<journeys, journeySource>>
envVars == <<openaiConfigured, now>>
biasVars == <<biasText, biasContext, biasReport, biasPath>>
sentVars == <<messages, sentimentResult, modelCalls>>
cacheVars == <<sentimentCache, calls>>
shiftVars == <<shiftMessages, shiftEmotions, shiftReport>>
handlerVars == <<request, response>>

vars == <<raw, result, prevRaw, prevResult, journeys, journeySource,
          openaiConfigured, now,
          biasText, biasContext, biasReport, biasPath,
          messages, sentimentResult, modelCalls, sentimentCache, calls,
          shiftMessages, shiftEmotions, shiftReport, request, response>>

notCalVars == <<smoothVars, envVars, biasVars, sentVars, cacheVars, shiftVars,
  handlerVars>>
notSmoothVars == <<calVars, envVars, biasVars, sentVars, cacheVars, shiftVars,
  handlerVars>>
notBiasVars == <<calVars, smoothVars, sentVars, cacheVars, shiftVars,
  handlerVars>>
notSentVars == <<calVars, smoothVars, biasVars, cacheVars, shiftVars,
  handlerVars>>
notCacheVars == <<calVars, smoothVars, biasVars, sentVars, shiftVars,
  handlerVars>>
notShiftVars == <<calVars, smoothVars, biasVars, sentVars, cacheVars,
  handlerVars>>

None == [none |-> TRUE]

CalIdle ==
  /\ raw = None
  /\ result = None
  /\ prevRaw = None
  /\ prevResult = None

SmoothIdle ==
  /\ journeys = <<>>
  /\ journeySource = "none"

EnvIdle ==
  /\ openaiConfigured = FALSE
  /\ now = 0

BiasIdle ==
  /\ biasText = <<>>
  /\ biasContext = "jobDescription"
  /\ biasReport = None
  /\ biasPath = "none"

SentIdle ==
  /\ messages = <<>>
  /\ sentimentResult = None
  /\ modelCalls = 0

CacheIdle ==
  /\ sentimentCache = {}
  /\ calls = <<>>

ShiftIdle ==
  /\ shiftMessages = <<>>
  /\ shiftEmotions = <<>>
  /\ shiftReport = None

HandlerIdle ==
  /\ request = None
  /\ response = None

Min2(a, b) == IF a <= b THEN a ELSE b
Max2(a, b) == IF a >= b THEN a ELSE b
Abs(n) == IF n < 0 THEN 0 - n ELSE n

(***************************************************************************)
(* JavaScript values of a score field.  typeof v = "number" covers the     *)
(* finite numbers, NaN and the two infinities (JSON.parse reads a literal  *)
(* beyond the double range, such as 1e999, as Infinity); anything else (a  *)
(* string, null, a missing key or a missing score item) is skipped by      *)
(* every loop of the calibrator.  inf is the sign of an infinite value and *)
(* 0 otherwise; infinities occur among the calibrator's inputs only.       *)
(***************************************************************************)
Num(n)      == [type |-> "number", nan |-> FALSE, inf |-> 0, val |-> n]
NaN         == [type |-> "number", nan |-> TRUE, inf |-> 0, val |-> 0]
Infinity    == [type |-> "number", nan |-> FALSE, inf |-> 1, val |-> 0]
NegInfinity == [type |-> "number", nan |-> FALSE, inf |-> -1, val |-> 0]
NotNumber   == [type |-> "string", nan |-> FALSE, inf |-> 0, val |-> 0]
Missing     == [type |-> "undefined", nan |-> FALSE, inf |-> 0, val |-> 0]

IsNumber(v) == v.type = "number"
IsFinite(v) == v.type = "number" /\ ~v.nan /\ v.inf = 0

\* JS relational operators on numbers: every comparison with NaN is false
Gt(v, n)  == IsNumber(v) /\ ~v.nan /\ (v.inf = 1 \/ (v.inf = 0 /\ v.val > n))
Lt(v, n)  == IsNumber(v) /\ ~v.nan /\ (v.inf = -1 \/ (v.inf = 0 /\ v.val < n))
Geq(v, n) == IsNumber(v) /\ ~v.nan /\ (v.inf = 1 \/ (v.inf = 0 /\ v.val >= n))

\* Math.round of the rational n/d (d > 0): floor(n/d + 1/2)
RoundDiv(n, d) == (2 * n + d) \div (2 * d)

----------------------------------------------------------------------------
(***************************************************************************)
(* calibrateScores                                                         *)
(***************************************************************************)
categories == <<"domainKnowledge", "communication", "responseQuality",
                "experienceRelevance", "culturalFit", "emotionalIntelligence">>

Categories == {categories[i] : i \in 1..Len(categories)}

\* weights of the overall score, in hundredths (0.25, 0.2, 0.15, 0.25, 0.15
\* and 0.1 for emotionalIntelligence)
weights == [c \in Categories |->
              CASE c = "domainKnowledge"       -> 25
                [] c = "communication"         -> 20
                [] c = "responseQuality"       -> 15
                [] c = "experienceRelevance"   -> 25
                [] c = "culturalFit"           -> 15
                [] c = "emotionalIntelligence" -> 10]

\* Math.floor(Math.random() * 3) - 1
Jitter == {-1, 0, 1}

\* the three tiers applied to one category score, before jitter and clamp:
\*   s > 85: round(s - (s-85)*0.7 - 2)       = round((30 s + 5750) / 100)
\*   s > 75: round(s - (s-75)*0.15*2)        = round((70 s + 2250) / 100)
\*   s > 65: round(s - (s-65)*0.15)          = round((85 s +  975) / 100)
\* the category loop without its tiers
CategoryTier_NoCompression(s) == s

CategoryTier(s) ==
  IF s > 85 THEN RoundDiv(30 * s + 5750, 100)
  ELSE IF s > 75 THEN RoundDiv(70 * s + 2250, 100)
  ELSE IF s > 65 THEN RoundDiv(85 * s + 975, 100)
  ELSE s

\* the loop body with the clamp applied before the random adjustment
CalibrateCategory_ClampBeforeJitter(v, j) ==
  IF v.nan \/ v.inf = 1 THEN NaN
  ELSE IF v.inf = -1 THEN Num(30)
  ELSE Num(Max2(30, Min2(95, CategoryTier(v.val))) + j)

\* one iteration of the category loop on a score with typeof "number": tier,
\* random adjustment, clamp.
\* NaN fails every comparison and Math.max(30, Math.min(95, NaN)) is NaN.
\* Infinity takes the top tier, where Infinity - (Infinity - 85) * 0.7 is
\* NaN; -Infinity takes no tier and is clamped to 30.
CalibrateCategory(v, j) ==
  IF v.nan \/ v.inf = 1 THEN NaN
  ELSE IF v.inf = -1 THEN Num(30)
  ELSE Num(Max2(30, Min2(95, CategoryTier(v.val) + j)))

\* the tiers applied to the overall score (no "- 2" in the top tier,
\* no jitter, no clamp)
OverallTier(o) ==
  IF o > 85 THEN RoundDiv(30 * o + 5950, 100)
  ELSE IF o > 75 THEN RoundDiv(70 * o + 2250, 100)
  ELSE IF o > 65 THEN RoundDiv(85 * o + 975, 100)
  ELSE o

RECURSIVE SumOver(_, _)
SumOver(f, i) ==
  IF i = 0 THEN 0 ELSE f[categories[i]] + SumOver(f, i - 1)

\* categories that enter the weighted sum: typeof score === "number"
Weighted(scores) == {c \in Categories : IsNumber(scores[c])}

(***************************************************************************)
(* The recomputed overall.  The sums are IEEE doubles: when the exact      *)
(* quotient is not a tie k + 1/2 the double is within 1e-13 of it and      *)
(* Math.round gives the exact rounding; on an exact tie the double may     *)
(* fall just below k + 1/2 and round down (e.g. 46,77,62,47,30,31 gives    *)
(* 50.49999999999999).  tieDown says which of the two the doubles give.    *)
(***************************************************************************)
RecomputeOverall(scores, oldOverall, tieDown) ==
  LET W   == Weighted(scores)
      n   == Len(categories)
      den == SumOver([c \in Categories |->
                        IF c \in W THEN weights[c] ELSE 0], n)
      num == SumOver([c \in Categories |->
                        IF c \in W /\ ~scores[c].nan
                        THEN weights[c] * scores[c].val ELSE 0], n)
      tie == (2 * num + den) % (2 * den) = 0
      mean == IF tie /\ tieDown THEN RoundDiv(num, den) - 1
              ELSE RoundDiv(num, den)
  IN IF den = 0 THEN oldOverall
     ELSE IF \E c \in W : scores[c].nan THEN NaN
     ELSE Num(OverallTier(mean))

primaryCategories == {"domainKnowledge", "experienceRelevance"}
otherCategories == {"communication", "responseQuality", "culturalFit"}

primaryThreshold == 65
minimumThreshold == 50
overallThreshold == 65

primaryRequirementsMet(scores) ==
  \A c \in primaryCategories :
    IsNumber(scores[c]) => ~Lt(scores[c], primaryThreshold)

minimumRequirementsMet(scores) ==
  \A c \in primaryCategories \cup otherCategories :
    IsNumber(scores[c]) => ~Lt(scores[c], minimumThreshold)

overallRequirementMet(overall) == Geq(overall, overallThreshold)

reasonPrimary ==
  "primary domain knowledge or experience requirements not fully met"
reasonMinimum ==
  "one or more critical skill areas falling below minimum thresholds"
reasonOverall == "overall score falling below the required threshold"

\* reasons.join(", and ")
RECURSIVE Join(_, _)
Join(seq, sep) ==
  IF Len(seq) = 0 THEN ""
  ELSE IF Len(seq) = 1 THEN seq[1]
  ELSE seq[1] \o sep \o Join(Tail(seq), sep)

Reasons(scores, overall) ==
  (IF primaryRequirementsMet(scores) THEN <<>> ELSE <<reasonPrimary>>)
  \o (IF minimumRequirementsMet(scores) THEN <<>> ELSE <<reasonMinimum>>)
  \o (IF overallRequirementMet(overall) THEN <<>> ELSE <<reasonOverall>>)

ReasoningText(reasons) ==
  "After calibrated assessment, the candidate does not fully meet qualification requirements due to "
  \o Join(reasons, ", and ")
  \o ". The scores reflect areas needing development before they would be ready for this role."

\* updateQualificationStatus on an object whose scores are already calibrated
updateQualificationStatus(r) ==
  LET isQualified == primaryRequirementsMet(r.scores)
                     /\ minimumRequirementsMet(r.scores)
                     /\ overallRequirementMet(r.overall)
  IN IF r.isQualified # isQualified
     THEN [r EXCEPT !.isQualified = isQualified,
                    !.qualificationReasoning =
                       IF ~isQualified
                       THEN ReasoningText(Reasons(r.scores, r.overall))
                       ELSE @]
     ELSE r

\* calibrateScores(result) with the random adjustments jit (one Math.random
\* draw per score of type number) and the rounding of a tied mean fixed
calibrateScores(r, jit, tieDown) ==
  LET scores == [c \in Categories |->
                   IF IsNumber(r.scores[c])
                   THEN CalibrateCategory(r.scores[c], jit[c])
                   ELSE r.scores[c]]
      overall == RecomputeOverall(scores, r.overall, tieDown)
  IN updateQualificationStatus([r EXCEPT !.scores = scores,
                                          !.overall = overall])

----------------------------------------------------------------------------
(***************************************************************************)
(* Inputs of calibrateScores: the AnalysisResult parsed from the model's   *)
(* JSON answer (route.ts:374-377).                                         *)
(***************************************************************************)
MaxBelow == 5
MaxRaw == 125
MaxStep == 2

\* the model's own reasoning text, any text that is not ReasoningText(..)
ModelReasoning ==
  "Clear explanation of qualification decision with specific evidence"

RawValues ==
  {Num(n) : n \in (0 - MaxBelow)..MaxRaw}
    \cup {NaN, Infinity, NegInfinity, NotNumber}

AnalysisInput(scores, overall, q) ==
  [scores |-> scores, overall |-> overall, isQualified |-> q,
   qualificationReasoning |-> ModelReasoning]

\* one category carries any raw value, the others are missing from the answer
SweepInputs ==
  {AnalysisInput([d \in Categories |-> IF d = c THEN v ELSE Missing], o, q) :
     c \in Categories, v \in RawValues, o \in {Num(40), Num(70)},
     q \in BOOLEAN}

\* complete answers: every required category scored, emotionalIntelligence
\* optional
ProfileInputs ==
  {AnalysisInput(
     [c \in Categories |->
        CASE c \in primaryCategories -> Num(p[c])
          [] c \in otherCategories   -> Num(o[c])
          [] OTHER                   -> e], Num(70), q) :
     p \in [primaryCategories -> {40, 60, 90}],
     o \in {f \in [otherCategories -> {40, 90}] :
              Cardinality({c \in otherCategories : f[c] = 40}) <= 1},
     e \in {Missing, Num(40), Num(90)},
     q \in BOOLEAN}

\* the outcomes of one calibrateScores(r) call
CalibrateOutcomes(r) ==
  {calibrateScores(r, jit, tieDown) :
     jit \in [Weighted(r.scores) -> Jitter], tieDown \in BOOLEAN}

\* route.ts:377 - calibrateScores(analysisResult).  The rounding of a tied
\* mean is a function of the calibrated scores: a call that arrives at the
\* scores of the previous call arrives at its overall too.
CalibrateCall ==
  /\ result = None
  /\ \E r \in CalibrateOutcomes(raw) :
       /\ (prevResult # None /\ prevRaw.overall = raw.overall
             /\ r.scores = prevResult.scores)
            => r.overall = prevResult.overall
       /\ result' = r
  /\ UNCHANGED <<raw, prevRaw, prevResult>>
  /\ UNCHANGED notCalVars

\* the handler runs again: the same answer, or one in which the scored
\* category is up to MaxStep higher
AnalyzeAgain ==
  /\ result # None
  /\ prevResult = None
  /\ \E c \in Categories, d \in 0..MaxStep :
       /\ IsFinite(raw.scores[c])
       /\ raw.scores[c].val + d <= MaxRaw
       /\ raw' = [raw EXCEPT !.scores[c] = Num(raw.scores[c].val + d)]
  /\ prevRaw' = raw
  /\ prevResult' = result
  /\ result' = None
  /\ UNCHANGED notCalVars

InitCal ==
  /\ raw \in SweepInputs \cup ProfileInputs
  /\ result = None
  /\ prevRaw = None
  /\ prevResult = None
  /\ SmoothIdle /\ EnvIdle /\ BiasIdle /\ SentIdle /\ CacheIdle /\ ShiftIdle /\ HandlerIdle

NextCal == CalibrateCall

SpecCal == InitCal /\ [][NextCal]_vars

InitCalTwice ==
  /\ raw \in SweepInputs
  /\ result = None
  /\ prevRaw = None
  /\ prevResult = None
  /\ SmoothIdle /\ EnvIdle /\ BiasIdle /\ SentIdle /\ CacheIdle /\ ShiftIdle /\ HandlerIdle

NextCalTwice == CalibrateCall \/ AnalyzeAgain

SpecCalTwice == InitCalTwice /\ [][NextCalTwice]_vars

----------------------------------------------------------------------------
Calibrated == result # None

\* the categories that carry a finite score after calibration
Scored(r) == {c \in Categories : IsFinite(r.scores[c])}

\* C1: after calibrate, isQualified holds exactly when every scored primary
\* category is >= 65, every scored category (emotionalIntelligence
\* included) is >= 50 and the overall is >= 65, whatever isQualified came in
C1_QualifiedIffAllThresholds ==
  Calibrated =>
    (result.isQualified <=>
       /\ \A c \in Scored(result) \cap primaryCategories :
            result.scores[c].val >= primaryThreshold
       /\ \A c \in Scored(result) : result.scores[c].val >= minimumThreshold
       /\ Geq(result.overall, overallThreshold))

C3_Monotone ==
  (Calibrated /\ prevResult # None) =>
    \A c \in Categories :
      (IsFinite(prevRaw.scores[c]) /\ IsFinite(raw.scores[c])
         /\ prevRaw.scores[c].val <= raw.scores[c].val)
        => prevResult.scores[c].val <= result.scores[c].val

\* C4: two runs on the same raw scores give the same calibrated scores, the
\* same overall and the same isQualified
C4_Deterministic ==
  (Calibrated /\ prevResult # None /\ prevRaw = raw) =>
    /\ prevResult.scores = result.scores
    /\ prevResult.overall = result.overall
    /\ prevResult.isQualified = result.isQualified

\* C5: whenever calibrate ends with isQualified = false, whatever came in,
\* the reasoning lists exactly the failed conditions in the order primary,
\* minimum, overall
C5_ReasoningListsFailures ==
  (Calibrated /\ ~result.isQualified) =>
    result.qualificationReasoning =
      ReasoningText(Reasons(result.scores, result.overall))

----------------------------------------------------------------------------
(***************************************************************************)
(* Further properties of calibrateScores                                   *)
(***************************************************************************)
\* a raw score that is a number outside [0,100]
OutOfRange(v) ==
  IsNumber(v) /\ ~v.nan /\ (v.inf # 0 \/ v.val < 0 \/ v.val > 100)

\* C11: for a raw category score that is missing, non-numeric, NaN or
\* outside [0,100], calibrate leaves NaN in no category score and not in
\* overall; out-of-range values end in [30,95] and missing or non-numeric
\* values are left alone
C11_NoNaNAfterCalibrate ==
  Calibrated =>
    /\ \A c \in Categories : ~result.scores[c].nan
    /\ ~result.overall.nan
    /\ \A c \in Categories :
         OutOfRange(raw.scores[c]) =>
           /\ IsFinite(result.scores[c])
           /\ result.scores[c].val >= 30
           /\ result.scores[c].val <= 95
    /\ \A c \in Categories :
         ~IsNumber(raw.scores[c]) => result.scores[c] = raw.scores[c]

\* the five required categories carry the given raw scores
RawProfile(domain, others) ==
  /\ raw.scores["domainKnowledge"] = Num(domain)
  /\ \A c \in (primaryCategories \cup otherCategories) \ {"domainKnowledge"} :
       raw.scores[c] = Num(others)

\* C12: with the five required categories at a raw 90, every outcome of
\* calibrate has an overall strictly below 90, no category above 90, and
\* isQualified = true
C12_AllNinetyCompressed ==
  (Calibrated /\ RawProfile(90, 90)) =>
    /\ IsFinite(result.overall)
    /\ result.overall.val < 90
    /\ \A c \in Categories :
         IsFinite(result.scores[c]) => result.scores[c].val <= 90
    /\ result.isQualified = TRUE

\* the all-90 answer came in as unqualified and has been calibrated
C12_Witness ==
  /\ Calibrated
  /\ RawProfile(90, 90)
  /\ raw.isQualified = FALSE
  /\ result.isQualified = TRUE
  /\ result.overall.val < 90

\* the reasoning is the calibrator's text and names the primary requirement
\* among its reasons
CitesPrimaryFailure(text) ==
  \E m, o \in BOOLEAN :
    text = ReasoningText(<<reasonPrimary>>
                           \o (IF m THEN <<reasonMinimum>> ELSE <<>>)
                           \o (IF o THEN <<reasonOverall>> ELSE <<>>))

\* C13: with domainKnowledge at a raw 40 and the other four required
\* categories at 90, every outcome of calibrate has isQualified = false and
\* a reasoning that cites the primary-requirement failure, whatever
\* isQualified came in
C13_PrimaryFailureCited ==
  (Calibrated /\ RawProfile(40, 90)) =>
    /\ result.isQualified = FALSE
    /\ CitesPrimaryFailure(result.qualificationReasoning)

\* one hundred times T(s) clamped to [30,95], T being the tiers as the
\* specification states them for a category score:
\*   s > 85: s - (s-85)*0.7 - 2 ;  s > 75: s - (s-75)*0.3 ;
\*   s > 65: s - (s-65)*0.15    ;  otherwise s
StatedTier100(s) ==
  Max2(3000, Min2(9500,
    IF s > 85 THEN 30 * s + 5750
    ELSE IF s > 75 THEN 70 * s + 2250
    ELSE IF s > 65 THEN 85 * s + 975
    ELSE 100 * s))

\* C17: for every raw category score s the calibrated category score is
\* T(s) clamped to [30,95], a function of s alone, to within the rounding
\* to an integer; a score at most 65 and at least 30 is returned unchanged
C17_CategoryIsStatedTier ==
  Calibrated =>
    \A c \in Categories :
      IsFinite(raw.scores[c]) =>
        /\ IsFinite(result.scores[c])
        /\ 2 * Abs(100 * result.scores[c].val
                     - StatedTier100(raw.scores[c].val)) <= 100
        /\ (raw.scores[c].val >= 30 /\ raw.scores[c].val <= 65)
             => result.scores[c] = raw.scores[c]

\* the sums of weight and of weight * score over the categories present,
\* taken on the calibrated scores
WeightSum(scores) ==
  SumOver([c \in Categories |->
             IF c \in Weighted(scores) THEN weights[c] ELSE 0],
          Len(categories))

WeightedScoreSum(scores) ==
  SumOver([c \in Categories |->
             IF c \in Weighted(scores) THEN weights[c] * scores[c].val
             ELSE 0],
          Len(categories))

\* one hundred times den times the category tiers (the "- 2" of the top
\* tier included) of the mean num / den
StatedOverall100(num, den) ==
  IF num > 85 * den THEN 30 * num + 5750 * den
  ELSE IF num > 75 * den THEN 70 * num + 2250 * den
  ELSE IF num > 65 * den THEN 85 * num + 975 * den
  ELSE 100 * num

\* C18: after calibrate, overall is the weighted mean of the calibrated
\* category scores over the categories present, passed through the same
\* three tiers as a category score (top tier s - (s-85)*0.7 - 2 included),
\* to within 1 (the code rounds the mean and the tiered value)
C18_OverallIsTieredMean ==
  (Calibrated /\ Weighted(result.scores) # {}
     /\ \A c \in Weighted(result.scores) : IsFinite(result.scores[c])) =>
    /\ IsFinite(result.overall)
    /\ Abs(100 * WeightSum(result.scores) * result.overall.val
             - StatedOverall100(WeightedScoreSum(result.scores),
                                WeightSum(result.scores)))
         <= 100 * WeightSum(result.scores)


\* C28: whenever calibrate changes isQualified from the value passed in, in
\* either direction, it replaces qualificationReasoning; the reasoning is
\* left unchanged only when isQualified is unchanged
C28_ReasoningFollowsDecision ==
  Calibrated =>
    /\ result.isQualified # raw.isQualified =>
         result.qualificationReasoning # raw.qualificationReasoning
    /\ result.isQualified = raw.isQualified =>
         result.qualificationReasoning = raw.qualificationReasoning

\* what holds: a decision turned to false brings the calibrator's text, and
\* every other outcome keeps the reasoning passed in
ReasoningReplacedOnDisqualification ==
  Calibrated =>
    IF raw.isQualified = TRUE /\ result.isQualified = FALSE
    THEN result.qualificationReasoning =
           ReasoningText(Reasons(result.scores, result.overall))
    ELSE result.qualificationReasoning = raw.qualificationReasoning

----------------------------------------------------------------------------
(***************************************************************************)
(* smoothEmotionalJourney                                                  *)
(***************************************************************************)
MaxLen == 4

EmotionLabels == {"positive", "negative"}
Intensities == {0, 20, 50, 80, 100}

Sample(t, e, i) == [timestamp |-> t, emotion |-> e, intensity |-> i]

\* samples 10 s apart
TimestampAt(k) == 10000 * k


\* the label test with the neighbours compared by !== instead of ===
IsLabelOutlier_NeighboursDiffer(prev, current, next) ==
  prev.emotion # next.emotion /\ current.emotion # prev.emotion

\* prev.emotion === next.emotion && current.emotion !== prev.emotion
IsLabelOutlier(prev, current, next) ==
  prev.emotion = next.emotion /\ current.emotion # prev.emotion

\* the sum of the neighbours' intensities, not halved
NeighbourMean_NoHalving(prev, next) == prev.intensity + next.intensity

\* Math.round((prev.intensity + next.intensity) / 2)
NeighbourMean(prev, next) == RoundDiv(prev.intensity + next.intensity, 2)

\* the loop body with the label rule only
SmoothAt_LabelRuleOnly(smoothed, i) ==
  IF IsLabelOutlier(smoothed[i - 1], smoothed[i], smoothed[i + 1])
  THEN [smoothed EXCEPT ![i].emotion = smoothed[i - 1].emotion,
                        ![i].intensity =
                           NeighbourMean(smoothed[i - 1], smoothed[i + 1])]
  ELSE smoothed

\* the loop body at index i (1-based): both rules, applied in place
SmoothAt(smoothed, i) ==
  LET prev == smoothed[i - 1]
      next == smoothed[i + 1]
      cur0 == smoothed[i]
      cur1 == IF IsLabelOutlier(prev, cur0, next)
              THEN [cur0 EXCEPT !.emotion = prev.emotion,
                                !.intensity = NeighbourMean(prev, next)]
              ELSE cur0
      prevDiff == Abs(cur1.intensity - prev.intensity)
      nextDiff == Abs(cur1.intensity - next.intensity)
      cur2 == IF prevDiff > 30 /\ nextDiff > 30
              THEN [cur1 EXCEPT !.intensity = NeighbourMean(prev, next)]
              ELSE cur1
  IN [smoothed EXCEPT ![i] = cur2]

\* for (let i = 1; i < smoothed.length - 1; i++), from 1-based index i on
RECURSIVE SmoothFrom(_, _)
SmoothFrom(smoothed, i) ==
  IF i >= Len(smoothed) THEN smoothed
  ELSE SmoothFrom(SmoothAt(smoothed, i), i + 1)

smoothEmotionalJourney(journey) ==
  IF Len(journey) <= 2 THEN journey ELSE SmoothFrom(journey, 2)

\* smooth applied to the last journey computed
SmoothCall ==
  /\ Len(journeys) \in 1..2
  /\ journeys' = Append(journeys, smoothEmotionalJourney(journeys[Len(journeys)]))
  /\ UNCHANGED journeySource
  /\ UNCHANGED notSmoothVars

InitSmooth ==
  /\ \E n \in 0..MaxLen :
       \E e \in [1..n -> EmotionLabels], i \in [1..n -> Intensities] :
         journeys = <<[k \in 1..n |-> Sample(TimestampAt(k), e[k], i[k])]>>
  /\ journeySource = "none"
  /\ CalIdle /\ EnvIdle /\ BiasIdle /\ SentIdle /\ CacheIdle /\ ShiftIdle /\ HandlerIdle

NextSmooth == SmoothCall

SpecSmooth == InitSmooth /\ [][NextSmooth]_vars

LabelsOf(journey) == [k \in 1..Len(journey) |-> journey[k].emotion]
TimestampsOf(journey) == [k \in 1..Len(journey) |-> journey[k].timestamp]

\* C7 as stated: smooth(smooth(x)) equals smooth(x) in every label and every
\* intensity
C7_SmoothIdempotent ==
  Len(journeys) = 3 => journeys[3] = journeys[2]

\* C7 amended: smooth(smooth(x)) has the length, the timestamps and the
\* labels of smooth(x), and equals smooth(x) when x has at most 3 samples; on
\* longer sequences a second pass may still change intensities
C7_SmoothLabelsIdempotent ==
  Len(journeys) = 3 =>
    /\ Len(journeys[3]) = Len(journeys[2])
    /\ TimestampsOf(journeys[3]) = TimestampsOf(journeys[2])
    /\ LabelsOf(journeys[3]) = LabelsOf(journeys[2])
    /\ Len(journeys[1]) <= 3 => journeys[3] = journeys[2]

\* both passes ran on a journey whose first pass rewrote a label, and the
\* second pass changed an intensity
C7_Witness ==
  /\ Len(journeys) = 3
  /\ LabelsOf(journeys[2]) # LabelsOf(journeys[1])
  /\ journeys[3] # journeys[2]

\* the trajectory positive(80), negative(20), positive(80), 10 s apart
SpikeJourney ==
  <<Sample(TimestampAt(1), "positive", 80),
    Sample(TimestampAt(2), "negative", 20),
    Sample(TimestampAt(3), "positive", 80)>>

SpikeSmoothed == Len(journeys) >= 2 /\ journeys[1] = SpikeJourney

\* C14 as stated: smoothing positive(80), negative(20), positive(80) leaves
\* the first and last samples unchanged and rewrites the middle one to
\* "positive" with an intensity of about 50
C14_SpikeCollapsedToFifty ==
  SpikeSmoothed =>
    /\ journeys[2][1] = SpikeJourney[1]
    /\ journeys[2][3] = SpikeJourney[3]
    /\ journeys[2][2].emotion = "positive"
    /\ Abs(journeys[2][2].intensity - 50) <= 5

\* C14 amended: the middle sample becomes "positive" with intensity 80, the
\* mean of its neighbours' intensities 80 and 80; the first and last samples
\* and the timestamps are unchanged
C14_SpikeCollapsedToMean ==
  SpikeSmoothed =>
    /\ journeys[2][1] = SpikeJourney[1]
    /\ journeys[2][3] = SpikeJourney[3]
    /\ journeys[2][2] = Sample(TimestampAt(2), "positive", 80)

\* the trajectory has been smoothed and its middle label rewritten
C14_Witness ==
  /\ SpikeSmoothed
  /\ journeys[2][2].emotion # journeys[1][2].emotion

\* the pass a smoothed sequence y is the result of, for the input x: sample
\* i is judged against the smoothed sample before it and the input sample
\* after it; mean(s) is the intensity an outlier takes, s being the sum of
\* the neighbours' intensities
IsForwardPass(x, y, mean(_)) ==
  /\ Len(y) = Len(x)
  /\ TimestampsOf(y) = TimestampsOf(x)
  /\ Len(x) < 3 => y = x
  /\ Len(x) >= 3 =>
       /\ y[1] = x[1]
       /\ y[Len(x)] = x[Len(x)]
       /\ \A i \in 2..(Len(x) - 1) :
            LET labelOutlier ==
                  /\ y[i - 1].emotion = x[i + 1].emotion
                  /\ x[i].emotion # y[i - 1].emotion
                intensityOutlier ==
                  /\ Abs(x[i].intensity - y[i - 1].intensity) > 30
                  /\ Abs(x[i].intensity - x[i + 1].intensity) > 30
            IN /\ y[i].emotion = (IF labelOutlier THEN y[i - 1].emotion
                                  ELSE x[i].emotion)
               /\ IF labelOutlier \/ intensityOutlier
                  THEN y[i].intensity =
                         mean(y[i - 1].intensity + x[i + 1].intensity)
                  ELSE y[i].intensity = x[i].intensity

\* the mean as a number that need not be whole: none when the sum is odd
ExactMean(s) == IF s % 2 = 0 THEN s \div 2 ELSE -1

\* the mean rounded to the nearest integer, a half rounded up
RoundedMean(s) == (s + 1) \div 2

\* C22 as stated: smooth is the single forward pass in which an outlier
\* takes the mean of its neighbours' intensities
C22_SmoothIsForwardPass ==
  Len(journeys) >= 2 => IsForwardPass(journeys[1], journeys[2], ExactMean)

\* C22 amended: the same pass, an outlier taking the mean of its
\* neighbours' intensities rounded to the nearest integer (a half up)
C22_SmoothIsRoundedForwardPass ==
  Len(journeys) >= 2 => IsForwardPass(journeys[1], journeys[2], RoundedMean)

\* a sequence of four samples has been smoothed: its second sample was
\* rewritten, and its third took the rounded mean of the rewritten second
\* and the fourth, whose intensities have an odd sum
C22_Witness ==
  /\ Len(journeys) >= 2
  /\ Len(journeys[1]) = 4
  /\ journeys[2][2].intensity # journeys[1][2].intensity
  /\ journeys[2][3].intensity # journeys[1][3].intensity
  /\ (journeys[2][2].intensity + journeys[1][4].intensity) % 2 = 1
  /\ journeys[2][3].intensity =
       RoundedMean(journeys[2][2].intensity + journeys[1][4].intensity)

----------------------------------------------------------------------------
(***************************************************************************)
(* Text.  A JavaScript string is modelled as the sequence of its           *)
(* characters, so that includes(), substring(), trim() and toLowerCase()   *)
(* are computed on the characters.                                         *)
(***************************************************************************)
UpperChars == <<"A", "B", "C", "D", "E", "F", "G", "H", "I", "J", "K", "L", "M",
                "N", "O", "P", "Q", "R", "S", "T", "U", "V", "W", "X", "Y", "Z">>
LowerChars == <<"a", "b", "c", "d", "e", "f", "g", "h", "i", "j", "k", "l", "m",
                "n", "o", "p", "q", "r", "s", "t", "u", "v", "w", "x", "y", "z">>

\* the lowercase letter of each uppercase letter
LowerOf ==
  [ch \in {UpperChars[k] : k \in 1..Len(UpperChars)} |->
     LowerChars[CHOOSE k \in 1..Len(UpperChars) : UpperChars[k] = ch]]

LowerChar(ch) == IF ch \in DOMAIN LowerOf THEN LowerOf[ch] ELSE ch

\* String.prototype.toLowerCase
toLowerCase(text) == [k \in 1..Len(text) |-> LowerChar(text[k])]

\* text.substring(p, p + Len(term)) === term, p counted from 0
MatchesAt(text, term, p) ==
  /\ p + Len(term) <= Len(text)
  /\ \A k \in 1..Len(term) : text[p + k] = term[k]

\* String.prototype.includes
includes(text, term) ==
  \E p \in 0..(Len(text) - Len(term)) : MatchesAt(text, term, p)

IsSpace(ch) == ch \in {" ", "\n", "\t"}

\* String.prototype.trim
trim(text) ==
  LET kept == {k \in 1..Len(text) : ~IsSpace(text[k])}
  IN IF kept = {} THEN <<>>
     ELSE LET first == CHOOSE k \in kept : \A m \in kept : k <= m
              last  == CHOOSE k \in kept : \A m \in kept : k >= m
          IN SubSeq(text, first, last)

----------------------------------------------------------------------------
(***************************************************************************)
(* detectBias, mockBiasDetection (biasDetection.ts) and                    *)
(* mockAIService.detectBias (aiConfig.ts)                                  *)
(***************************************************************************)
Term(term, chars) == [term |-> term, chars |-> chars]

\* biasDetection.ts genderTerms, in table order
genderTerms ==
  <<
    Term("he ",
         <<"h", "e", " ">>),
    Term("him",
         <<"h", "i", "m">>),
    Term("his",
         <<"h", "i", "s">>),
    Term("she ",
         <<"s", "h", "e", " ">>),
    Term("her",
         <<"h", "e", "r">>),
    Term("hers",
         <<"h", "e", "r", "s">>),
    Term("manpower",
         <<"m", "a", "n", "p", "o", "w", "e", "r">>),
    Term("mankind",
         <<"m", "a", "n", "k", "i", "n", "d">>),
    Term("businessman",
         <<"b", "u", "s", "i", "n", "e", "s", "s", "m", "a", "n">>),
    Term("businesswoman",
         <<"b", "u", "s", "i", "n", "e", "s", "s", "w", "o", "m", "a", "n">>),
    Term("chairman",
         <<"c", "h", "a", "i", "r", "m", "a", "n">>),
    Term("manmade",
         <<"m", "a", "n", "m", "a", "d", "e">>),
    Term("salesman",
         <<"s", "a", "l", "e", "s", "m", "a", "n">>),
    Term("saleswoman",
         <<"s", "a", "l", "e", "s", "w", "o", "m", "a", "n">>),
    Term("rockstar",
         <<"r", "o", "c", "k", "s", "t", "a", "r">>),
    Term("ninja",
         <<"n", "i", "n", "j", "a">>),
    Term("guru",
         <<"g", "u", "r", "u">>),
    Term("strong man",
         <<"s", "t", "r", "o", "n", "g", " ", "m", "a", "n">>)
  >>

\* biasDetection.ts ageTerms, in table order
ageTerms ==
  <<
    Term("young",
         <<"y", "o", "u", "n", "g">>),
    Term("fresh",
         <<"f", "r", "e", "s", "h">>),
    Term("energetic",
         <<"e", "n", "e", "r", "g", "e", "t", "i", "c">>),
    Term("digital native",
         <<"d", "i", "g", "i", "t", "a", "l", " ", "n", "a", "t", "i", "v", "e">>),
    Term("recent graduate",
         <<"r", "e", "c", "e", "n", "t", " ", "g", "r", "a", "d", "u", "a", "t",
         "e">>),
    Term("junior",
         <<"j", "u", "n", "i", "o", "r">>),
    Term("senior",
         <<"s", "e", "n", "i", "o", "r">>),
    Term("experienced",
         <<"e", "x", "p", "e", "r", "i", "e", "n", "c", "e", "d">>),
    Term("over 5 years",
         <<"o", "v", "e", "r", " ", "5", " ", "y", "e", "a", "r", "s">>),
    Term("over 10 years",
         <<"o", "v", "e", "r", " ", "1", "0", " ", "y", "e", "a", "r", "s">>)
  >>

\* suggestions[term] || ["Use gender-neutral language"]
getGenderNeutralSuggestion(term) ==
  CASE term = "he " ->
         <<"they", "the person", "the individual", "the candidate">>
    [] term = "him" ->
         <<"them", "the person", "the individual", "the candidate">>
    [] term = "his" ->
         <<"their", "the person's", "the individual's", "the candidate's">>
    [] term = "she " ->
         <<"they", "the person", "the individual", "the candidate">>
    [] term = "her" ->
         <<"them", "their", "the person", "the individual", "the candidate">>
    [] term = "hers" ->
         <<"theirs", "the person's", "the individual's", "the candidate's">>
    [] term = "manpower" ->
         <<"workforce", "staff", "personnel", "team members">>
    [] term = "mankind" ->
         <<"humanity", "humankind", "people", "human beings">>
    [] term = "businessman" ->
         <<"businessperson", "professional", "executive">>
    [] term = "businesswoman" ->
         <<"businessperson", "professional", "executive">>
    [] term = "chairman" ->
         <<"chairperson", "chair", "leader", "head">>
    [] term = "manmade" ->
         <<"artificial", "synthetic", "manufactured", "constructed">>
    [] term = "salesman" ->
         <<"salesperson", "sales representative", "sales associate">>
    [] term = "saleswoman" ->
         <<"salesperson", "sales representative", "sales associate">>
    [] term = "rockstar" ->
         <<"top performer", "high achiever", "outstanding contributor">>
    [] term = "ninja" ->
         <<"expert", "specialist", "professional">>
    [] term = "guru" ->
         <<"expert", "specialist", "authority", "leader">>
    [] term = "strong man" ->
         <<"strong person", "physically strong individual", "person with physical strength">>
    [] OTHER -> <<"Use gender-neutral language">>

\* suggestions[term] || ["Use age-neutral language"]
getAgeFairSuggestion(term) ==
  CASE term = "young" ->
         <<"motivated", "adaptable", "dynamic">>
    [] term = "fresh" ->
         <<"new", "innovative", "creative">>
    [] term = "energetic" ->
         <<"motivated", "dynamic", "enthusiastic">>
    [] term = "digital native" ->
         <<"proficient with digital technology", "experienced with digital tools">>
    [] term = "recent graduate" ->
         <<"early-career professional", "entry-level candidate">>
    [] term = "junior" ->
         <<"early-career", "entry-level", "developing professional">>
    [] term = "senior" ->
         <<"experienced", "advanced", "seasoned professional">>
    [] term = "experienced" ->
         <<"skilled", "knowledgeable", "proficient">>
    [] term = "over 5 years" ->
         <<"significant experience", "established expertise">>
    [] term = "over 10 years" ->
         <<"extensive experience", "comprehensive expertise">>
    [] OTHER -> <<"Use age-neutral language">>

\* aiConfig.ts mockAIService.detectBias genderTerms
serviceGenderTerms ==
  <<
    Term("he is",
         <<"h", "e", " ", "i", "s">>),
    Term("she is",
         <<"s", "h", "e", " ", "i", "s">>),
    Term("his",
         <<"h", "i", "s">>),
    Term("her",
         <<"h", "e", "r">>),
    Term("himself",
         <<"h", "i", "m", "s", "e", "l", "f">>),
    Term("herself",
         <<"h", "e", "r", "s", "e", "l", "f">>),
    Term("man",
         <<"m", "a", "n">>),
    Term("woman",
         <<"w", "o", "m", "a", "n">>),
    Term("male",
         <<"m", "a", "l", "e">>),
    Term("female",
         <<"f", "e", "m", "a", "l", "e">>),
    Term("guys",
         <<"g", "u", "y", "s">>),
    Term("girls",
         <<"g", "i", "r", "l", "s">>),
    Term("boys",
         <<"b", "o", "y", "s">>),
    Term("manpower",
         <<"m", "a", "n", "p", "o", "w", "e", "r">>),
    Term("mankind",
         <<"m", "a", "n", "k", "i", "n", "d">>),
    Term("chairman",
         <<"c", "h", "a", "i", "r", "m", "a", "n">>),
    Term("manmade",
         <<"m", "a", "n", "m", "a", "d", "e">>),
    Term("salesman",
         <<"s", "a", "l", "e", "s", "m", "a", "n">>),
    Term("saleswoman",
         <<"s", "a", "l", "e", "s", "w", "o", "m", "a", "n">>),
    Term("businessman",
         <<"b", "u", "s", "i", "n", "e", "s", "s", "m", "a", "n">>),
    Term("businesswoman",
         <<"b", "u", "s", "i", "n", "e", "s", "s", "w", "o", "m", "a", "n">>),
    Term("rockstar",
         <<"r", "o", "c", "k", "s", "t", "a", "r">>),
    Term("ninja",
         <<"n", "i", "n", "j", "a">>),
    Term("guru",
         <<"g", "u", "r", "u">>)
  >>

\* aiConfig.ts mockAIService.detectBias ageTerms
serviceAgeTerms ==
  <<
    Term("young",
         <<"y", "o", "u", "n", "g">>),
    Term("fresh",
         <<"f", "r", "e", "s", "h">>),
    Term("energetic",
         <<"e", "n", "e", "r", "g", "e", "t", "i", "c">>),
    Term("digital native",
         <<"d", "i", "g", "i", "t", "a", "l", " ", "n", "a", "t", "i", "v", "e">>),
    Term("recent graduate",
         <<"r", "e", "c", "e", "n", "t", " ", "g", "r", "a", "d", "u", "a", "t",
         "e">>),
    Term("junior",
         <<"j", "u", "n", "i", "o", "r">>),
    Term("senior",
         <<"s", "e", "n", "i", "o", "r">>),
    Term("experienced",
         <<"e", "x", "p", "e", "r", "i", "e", "n", "c", "e", "d">>),
    Term("over 5 years",
         <<"o", "v", "e", "r", " ", "5", " ", "y", "e", "a", "r", "s">>),
    Term("over 10 years",
         <<"o", "v", "e", "r", " ", "1", "0", " ", "y", "e", "a", "r", "s">>)
  >>

\* aiConfig.ts mockAIService.detectBias culturalTerms
serviceCulturalTerms ==
  <<
    Term("culture fit",
         <<"c", "u", "l", "t", "u", "r", "e", " ", "f", "i", "t">>),
    Term("cultural fit",
         <<"c", "u", "l", "t", "u", "r", "a", "l", " ", "f", "i", "t">>),
    Term("team player",
         <<"t", "e", "a", "m", " ", "p", "l", "a", "y", "e", "r">>),
    Term("work hard play hard",
         <<"w", "o", "r", "k", " ", "h", "a", "r", "d", " ", "p", "l", "a", "y",
         " ", "h", "a", "r", "d">>),
    Term("fast-paced environment",
         <<"f", "a", "s", "t", "-", "p", "a", "c", "e", "d", " ", "e", "n", "v",
         "i", "r", "o", "n", "m", "e", "n", "t">>)
  >>

\* the nested conditional of the gender finding
serviceGenderSuggestion(term) ==
  CASE term = "he is" ->
         <<"they are">>
    [] term = "she is" ->
         <<"they are">>
    [] term = "his" ->
         <<"their">>
    [] term = "her" ->
         <<"their">>
    [] term = "himself" ->
         <<"themselves">>
    [] term = "herself" ->
         <<"themselves">>
    [] term = "man" ->
         <<"person">>
    [] term = "woman" ->
         <<"person">>
    [] term = "male" ->
         <<"individual">>
    [] term = "female" ->
         <<"individual">>
    [] term = "guys" ->
         <<"team members">>
    [] term = "girls" ->
         <<"team members">>
    [] term = "boys" ->
         <<"team members">>
    [] term = "manpower" ->
         <<"workforce">>
    [] term = "mankind" ->
         <<"humanity">>
    [] term = "chairman" ->
         <<"chairperson">>
    [] term = "manmade" ->
         <<"artificial">>
    [] term = "salesman" ->
         <<"salesperson">>
    [] term = "saleswoman" ->
         <<"salesperson">>
    [] term = "businessman" ->
         <<"businessperson">>
    [] term = "businesswoman" ->
         <<"businessperson">>
    [] term = "rockstar" ->
         <<"top performer">>
    [] term = "ninja" ->
         <<"expert">>
    [] term = "guru" ->
         <<"specialist">>
    [] OTHER -> <<"neutral alternative">>

\* the nested conditional of the age finding
serviceAgeSuggestion(term) ==
  CASE term = "young" ->
         <<"motivated">>
    [] term = "fresh" ->
         <<"new to the field">>
    [] term = "energetic" ->
         <<"motivated">>
    [] term = "digital native" ->
         <<"technically proficient">>
    [] term = "recent graduate" ->
         <<"early-career professional">>
    [] term = "junior" ->
         <<"early-career">>
    [] term = "senior" ->
         <<"experienced">>
    [] term = "experienced" ->
         <<"skilled">>
    [] term = "over 5 years" ->
         <<"significant experience">>
    [] term = "over 10 years" ->
         <<"extensive experience">>
    [] OTHER -> <<"neutral alternative">>

\* the nested conditional of the cultural finding
serviceCulturalSuggestion(term) ==
  CASE term = "culture fit" ->
         <<"alignment with company values">>
    [] term = "cultural fit" ->
         <<"alignment with company values">>
    [] term = "team player" ->
         <<"collaborative">>
    [] term = "work hard play hard" ->
         <<"dedicated and social team">>
    [] term = "fast-paced environment" ->
         <<"dynamic environment">>
    [] OTHER -> <<"neutral alternative">>

textEmpty ==
  <<>>

textShort ==
  <<" ", " ", "a", " ", "n", "i", "n", "j", "a", " ", " ">>

textRockstar ==
  <<"T", "h", "e", " ", "i", "d", "e", "a", "l", " ", "c", "a", "n", "d",
      "i", "d", "a", "t", "e", " ", "i", "s", " ", "a", " ", "r", "o", "c",
      "k", "s", "t", "a", "r", " ", "n", "i", "n", "j", "a", " ", "w", "h",
      "o", " ", "c", "a", "n", " ", "b", "e", " ", "a", " ", "r", "e", "a",
      "l", " ", "c", "h", "a", "i", "r", "m", "a", "n", " ", "o", "f", " ",
      "t", "h", "i", "s", " ", "t", "e", "a", "m", ".">>

textNeutral ==
  <<"W", "e", " ", "v", "a", "l", "u", "e", " ", "c", "l", "e", "a", "r",
      " ", "a", "n", "d", " ", "k", "i", "n", "d", " ", "c", "o", "m", "m",
      "u", "n", "i", "c", "a", "t", "i", "o", "n", ".">>

textYoungSalesman ==
  <<"Y", "o", "u", "n", "g", " ", "s", "a", "l", "e", "s", "m", "a", "n",
      " ", "w", "a", "n", "t", "e", "d", ",", " ", "a", " ", "t", "e", "a",
      "m", " ", "p", "l", "a", "y", "e", "r", ".">>

textSenior ==
  <<"A", " ", "s", "e", "n", "i", "o", "r", " ", "a", "n", "a", "l", "y",
      "s", "t", " ", "r", "o", "l", "e", ",", " ", "o", "p", "e", "n", " ",
      "t", "o", " ", "a", "l", "l", ".">>

Finding(text, type, severity, suggestions) ==
  [text |-> text, type |-> type, severity |-> severity,
   suggestions |-> suggestions]

BiasResult(biasScore, detectedBiases, overallAssessment, fairnessScore) ==
  [biasScore |-> biasScore, detectedBiases |-> detectedBiases,
   overallAssessment |-> overallAssessment, fairnessScore |-> fairnessScore]

\* the loop without its break, the last term found being the one reported
FirstTerm_LastFound(textLower, terms) ==
  LET hits == {k \in 1..Len(terms) : includes(textLower, terms[k].chars)}
  IN IF hits = {} THEN 0 ELSE CHOOSE k \in hits : \A m \in hits : k >= m

\* for (const term of terms) { if (textLower.includes(term)) {...; break;} }:
\* the index of the first term of the table found in the text, 0 if none
FirstTerm(textLower, terms) ==
  LET hits == {k \in 1..Len(terms) : includes(textLower, terms[k].chars)}
  IN IF hits = {} THEN 0 ELSE CHOOSE k \in hits : \A m \in hits : k <= m

\* the findings pushed by one table's loop: none or one
TableFindings(textLower, terms, type, severity, suggestions) ==
  LET k == FirstTerm(textLower, terms)
  IN IF k = 0 THEN <<>>
     ELSE <<Finding(terms[k].term, type, severity, suggestions[k])>>

TypesOf(findings) == [k \in 1..Len(findings) |-> findings[k].type]

\* biasDetection.ts mockBiasDetection(text, context)
mockBiasDetection(text, context) ==
  LET textLower == toLowerCase(text)
      detectedBiases ==
        TableFindings(textLower, genderTerms, "gender", "medium",
            [k \in 1..Len(genderTerms) |-> getGenderNeutralSuggestion(genderTerms[k].term)])
        \o TableFindings(textLower, ageTerms, "age", "medium",
            [k \in 1..Len(ageTerms) |-> getAgeFairSuggestion(ageTerms[k].term)])
      biasScore == Min2(Len(detectedBiases) * 25, 80)
      fairnessScore == 100 - biasScore
      overallAssessment ==
        IF Len(detectedBiases) = 0
        THEN "No significant bias detected in the text."
        ELSE IF Len(detectedBiases) = 1
        THEN "The text contains some potentially biased language related to "
             \o detectedBiases[1].type
             \o ". Consider more inclusive alternatives."
        ELSE "The text contains several instances of potentially biased language related to "
             \o Join(TypesOf(detectedBiases), " and ")
             \o ". Consider more inclusive alternatives."
  IN BiasResult(biasScore, detectedBiases, overallAssessment, fairnessScore)

\* aiConfig.ts mockAIService.detectBias(text)
mockServiceDetectBias(text) ==
  LET textLower == toLowerCase(text)
      biases ==
        TableFindings(textLower, serviceGenderTerms, "gender", "medium",
            [k \in 1..Len(serviceGenderTerms) |-> serviceGenderSuggestion(serviceGenderTerms[k].term)])
        \o TableFindings(textLower, serviceAgeTerms, "age", "medium",
            [k \in 1..Len(serviceAgeTerms) |-> serviceAgeSuggestion(serviceAgeTerms[k].term)])
        \o TableFindings(textLower, serviceCulturalTerms, "cultural", "low",
            [k \in 1..Len(serviceCulturalTerms) |-> serviceCulturalSuggestion(serviceCulturalTerms[k].term)])
      biasScore == Min2(Len(biases) * 30, 90)
      fairnessScore == 100 - biasScore
  IN BiasResult(biasScore, biases,
                IF Len(biases) = 0
                THEN "No significant bias detected in the text."
                ELSE "The text contains some potentially biased language that could limit candidate diversity. Consider using more inclusive language.",
                fairnessScore)

\* a JS value used as the left operand of ||
Truthy(v) == (v.type = "number" /\ ~v.nan /\ v.val # 0) \/ v.type = "string"

(***************************************************************************)
(* What the model call of detectBias can come to: failed (the request, the *)
(* empty-content check or JSON.parse threw), or the parsed object, whose   *)
(* four fields may each be missing.                                        *)
(***************************************************************************)
ModelFailed == [ok |-> FALSE]

ModelAssessment == "The text shows a moderate level of gendered language."

ModelFinding ==
  Finding("rockstar", "gender", "low", <<"top performer">>)

BiasModelAnswers ==
  {[ok |-> TRUE, biasScore |-> b, fairnessScore |-> f,
    detectedBiases |-> d, overallAssessment |-> a] :
     b \in {Missing, Num(0), Num(30), Num(100)},
     f \in {Missing, Num(0), Num(70), Num(100)},
     d \in {Missing, [type |-> "array", items |-> <<>>],
            [type |-> "array", items |-> <<ModelFinding>>]},
     a \in {Missing, [type |-> "string", text |-> ModelAssessment]}}

BiasModelOutcomes == {ModelFailed} \cup BiasModelAnswers

\* biasDetection.ts:124-131, the object built from the parsed answer
FromModelAnswer(answer) ==
  LET biasScore == IF Truthy(answer.biasScore) THEN answer.biasScore.val ELSE 0
  IN BiasResult(
       biasScore,
       IF answer.detectedBiases.type = "array"
       THEN answer.detectedBiases.items ELSE <<>>,
       IF answer.overallAssessment.type = "string"
       THEN answer.overallAssessment.text
       ELSE "No bias assessment provided.",
       IF Truthy(answer.fairnessScore) THEN answer.fairnessScore.val
       ELSE 100 - biasScore)

\* the path detectBias takes
DetectBiasPath(text, configured, outcome) ==
  IF Len(text) = 0 \/ Len(trim(text)) < 10 THEN "default"
  ELSE IF ~configured THEN "mock"
  ELSE IF outcome.ok THEN "model"
  ELSE "fallback"

\* biasDetection.ts detectBias(text, context), given isOpenAIConfigured() and
\* the outcome of the model call
detectBias(text, context, configured, outcome) ==
  LET path == DetectBiasPath(text, configured, outcome)
  IN CASE path = "default" ->
            BiasResult(0, <<>>, "No text provided for bias detection.", 100)
       [] path = "model" -> FromModelAnswer(outcome)
       [] OTHER -> mockBiasDetection(text, context)

BiasTexts == {textEmpty, textShort, textRockstar, textNeutral,
              textYoungSalesman, textSenior}

BiasContexts == {"jobDescription", "questions", "analysis"}

\* check-bias/route.ts:26 and the other callers - detectBias(text, context)
DetectBiasCall ==
  /\ biasReport = None
  /\ \E outcome \in BiasModelOutcomes :
       /\ biasReport' = detectBias(biasText, biasContext, openaiConfigured,
                                   outcome)
       /\ biasPath' = DetectBiasPath(biasText, openaiConfigured, outcome)
  /\ UNCHANGED <<biasText, biasContext, envVars>>
  /\ UNCHANGED notBiasVars

\* analyze-interview/route.ts:97 and the other callers -
\* mockAIService.detectBias(text)
MockServiceDetectBiasCall ==
  /\ biasReport = None
  /\ biasReport' = mockServiceDetectBias(biasText)
  /\ biasPath' = "mockService"
  /\ UNCHANGED <<biasText, biasContext, envVars>>
  /\ UNCHANGED notBiasVars

InitBias ==
  /\ biasText \in BiasTexts
  /\ biasContext \in BiasContexts
  /\ openaiConfigured \in BOOLEAN
  /\ now = 0
  /\ biasReport = None
  /\ biasPath = "none"
  /\ CalIdle /\ SmoothIdle /\ SentIdle /\ CacheIdle /\ ShiftIdle /\ HandlerIdle

NextBias == DetectBiasCall \/ MockServiceDetectBiasCall

SpecBias == InitBias /\ [][NextBias]_vars

\* C10: every BiasReport returned by detectBias (default, rule-based scan or
\* model-backed) and by mockAIService.detectBias has
\* fairnessScore = 100 - biasScore
C10_FairnessIsComplement ==
  biasReport # None => biasReport.fairnessScore = 100 - biasReport.biasScore

HasGenderSuggestion(findings) ==
  \E k \in 1..Len(findings) :
     findings[k].type = "gender" /\ Len(findings[k].suggestions) > 0

\* C16: the rule-based scan (mockBiasDetection, reached without a configured
\* model or after a failed model call, and mockAIService.detectBias) of the
\* text "The ideal candidate is a rockstar ninja who can be a real chairman of
\* this team." returns at least 2 findings, a gender finding with a non-empty
\* suggestion list among them, biasScore > 0 and
\* fairnessScore = 100 - biasScore
C16_RockstarScan ==
  (biasText = textRockstar /\ biasPath \in {"mock", "fallback", "mockService"})
    => /\ Len(biasReport.detectedBiases) >= 2
       /\ HasGenderSuggestion(biasReport.detectedBiases)
       /\ biasReport.biasScore > 0
       /\ biasReport.fairnessScore = 100 - biasReport.biasScore

\* what the two scans do return for that text: exactly one finding, the first
\* gender term of the table that occurs in the lowercased text
RockstarScanFindsOne ==
  (biasText = textRockstar /\ biasPath \in {"mock", "fallback", "mockService"})
    => /\ Len(biasReport.detectedBiases) = 1
       /\ HasGenderSuggestion(biasReport.detectedBiases)
       /\ biasReport.detectedBiases[1].text =
            (IF biasPath = "mockService" THEN "his" ELSE "he ")
       /\ biasReport.biasScore = (IF biasPath = "mockService" THEN 30 ELSE 25)
       /\ biasReport.fairnessScore = 100 - biasReport.biasScore

\* the findings of one category in a report
FindingsOfType(findings, type) ==
  {k \in 1..Len(findings) : findings[k].type = type}

\* the report holds the first term of the table that occurs in the
\* lower-cased text as its only finding of the category, or none when no
\* term of the table occurs
ReportsFirstTermOnly(findings, type, terms, textLower) ==
  LET found == FindingsOfType(findings, type)
  IN /\ Cardinality(found) <= 1
     /\ (found = {}) <=>
          (\A k \in 1..Len(terms) : ~includes(textLower, terms[k].chars))
     /\ \A f \in found :
          \E k \in 1..Len(terms) :
            /\ findings[f].text = terms[k].term
            /\ includes(textLower, terms[k].chars)
            /\ \A m \in 1..(k - 1) : ~includes(textLower, terms[m].chars)

RuleBasedScan == biasReport # None /\ biasPath \in {"mock", "fallback"}

\* C27: a rule-based scan reports at most one finding per category, the
\* first term in table order that occurs as a substring of the lower-cased
\* text; the result is the same for every context tag; biasScore is
\* min(25 * number of findings, 80)
C27_OneFindingPerCategory ==
  RuleBasedScan =>
    /\ ReportsFirstTermOnly(biasReport.detectedBiases, "gender", genderTerms,
                            toLowerCase(biasText))
    /\ ReportsFirstTermOnly(biasReport.detectedBiases, "age", ageTerms,
                            toLowerCase(biasText))
    /\ \A k \in 1..Len(biasReport.detectedBiases) :
         biasReport.detectedBiases[k].type \in {"gender", "age"}
    /\ biasReport.biasScore = Min2(25 * Len(biasReport.detectedBiases), 80)
    /\ \A c \in BiasContexts : biasReport = mockBiasDetection(biasText, c)

\* a text in which several gender terms occur has been scanned under a
\* context other than the default, and one gender finding was reported
C27_Witness ==
  /\ RuleBasedScan
  /\ biasContext = "analysis"
  /\ Cardinality({k \in 1..Len(genderTerms) :
                    includes(toLowerCase(biasText), genderTerms[k].chars)}) > 1
  /\ Cardinality(FindingsOfType(biasReport.detectedBiases, "gender")) = 1
  /\ biasReport.biasScore = 25

----------------------------------------------------------------------------
(***************************************************************************)
(* Regular expressions of analyzeWithBasicApproach and                     *)
(* detectMessageEmotions (sentimentAnalysis.ts).  A pattern is a sequence  *)
(* of elements; every "+" of the source's patterns is followed by the end  *)
(* of the pattern or by a character outside its class, so the greedy run   *)
(* is the only candidate.                                                  *)
(***************************************************************************)
WordBoundary  == [kind |-> "b", ch |-> ""]
Literal(ch)   == [kind |-> "lit", ch |-> ch]
OneOrMore(ch) == [kind |-> "plus", ch |-> ch]
\* ^ and $ under the m flag, and a group (w1|w2|...) of literal words
LineStart     == [kind |-> "bol", ch |-> ""]
LineEnd       == [kind |-> "eol", ch |-> ""]
Alternatives(words) == [kind |-> "alt", ch |-> "", words |-> words]
RegExp(els, ignoreCase) == [els |-> els, ignoreCase |-> ignoreCase]

DigitChars == {"0", "1", "2", "3", "4", "5", "6", "7", "8", "9"}
LowerLetters == {LowerChars[k] : k \in 1..Len(LowerChars)}
Letters == LowerLetters \cup DOMAIN LowerOf

\* \w
WordChars == Letters \cup DigitChars \cup {"_"}
IsWordChar(ch) == ch \in WordChars

\* \b between text[p] and text[p + 1]
AtWordBoundary(text, p) ==
  LET before == p >= 1 /\ IsWordChar(text[p])
      after  == p < Len(text) /\ IsWordChar(text[p + 1])
  IN before # after

CharMatches(el, ignoreCase, ch) ==
  IF el.ch = "a-z"
  THEN IF ignoreCase THEN ch \in Letters ELSE ch \in LowerLetters
  ELSE IF ignoreCase THEN LowerChar(ch) = LowerChar(el.ch) ELSE ch = el.ch

\* end of the longest run of characters of el's class that starts after p
RunEnd(text, el, ignoreCase, p) ==
  CHOOSE q \in p..Len(text) :
    /\ \A k \in (p + 1)..q : CharMatches(el, ignoreCase, text[k])
    /\ q = Len(text) \/ ~CharMatches(el, ignoreCase, text[q + 1])

\* the word matches the text after p characters
WordMatchesAt(text, word, ignoreCase, p) ==
  /\ p + Len(word) <= Len(text)
  /\ \A k \in 1..Len(word) :
       IF ignoreCase THEN LowerChar(text[p + k]) = LowerChar(word[k])
       ELSE text[p + k] = word[k]

\* the modelled texts hold no line terminator but "\n"
IsLineTerminator(ch) == ch = "\n"

\* the end of the match of els[i..] that starts after p characters, or -1
RECURSIVE MatchEnd(_, _, _, _)
MatchEnd(text, re, i, p) ==
  IF i > Len(re.els) THEN p
  ELSE LET el == re.els[i]
       IN CASE el.kind = "b" ->
                 IF AtWordBoundary(text, p) THEN MatchEnd(text, re, i + 1, p)
                 ELSE -1
            [] el.kind = "lit" ->
                 IF p < Len(text) /\ CharMatches(el, re.ignoreCase, text[p + 1])
                 THEN MatchEnd(text, re, i + 1, p + 1)
                 ELSE -1
            [] el.kind = "plus" ->
                 LET q == RunEnd(text, el, re.ignoreCase, p)
                 IN IF q = p THEN -1 ELSE MatchEnd(text, re, i + 1, q)
            [] el.kind = "bol" ->
                 IF p = 0 \/ IsLineTerminator(text[p])
                 THEN MatchEnd(text, re, i + 1, p) ELSE -1
            [] el.kind = "eol" ->
                 IF p = Len(text) \/ IsLineTerminator(text[p + 1])
                 THEN MatchEnd(text, re, i + 1, p) ELSE -1
            [] el.kind = "alt" ->
                 \* the first word, in order, after which the rest matches
                 LET ends == [k \in 1..Len(el.words) |->
                                IF WordMatchesAt(text, el.words[k], re.ignoreCase, p)
                                THEN MatchEnd(text, re, i + 1, p + Len(el.words[k]))
                                ELSE -1]
                 IN IF \A k \in 1..Len(el.words) : ends[k] = -1 THEN -1
                    ELSE ends[CHOOSE k \in 1..Len(el.words) :
                                /\ ends[k] # -1
                                /\ \A m \in 1..(k - 1) : ends[m] = -1]

\* text.match(re) with the g flag: the number of matches, found left to
\* right without overlap (0 where match returns null)
RECURSIVE MatchCountFrom(_, _, _)
MatchCountFrom(text, re, p) ==
  IF p >= Len(text) THEN 0
  ELSE LET e == MatchEnd(text, re, 1, p)
       IN IF e > p THEN 1 + MatchCountFrom(text, re, e)
          ELSE MatchCountFrom(text, re, p + 1)

MatchCount(text, re) == MatchCountFrom(text, re, 0)

\* a pattern literal with its g flag and the number of its capture groups
Pattern(re, global, groups) == [re |-> re, global |-> global, groups |-> groups]

\* text.match(pattern).length, 0 where match returns null: with the g flag
\* the number of matches, without it the first match and its groups
MatchLength(text, pattern) ==
  IF pattern.global THEN MatchCount(text, pattern.re)
  ELSE IF \E p \in 0..Len(text) : MatchEnd(text, pattern.re, 1, p) # -1
       THEN 1 + pattern.groups
       ELSE 0

\* new RegExp(`\\b${phrase}\\b`, "gi")
PhraseRegExp(phrase) ==
  RegExp(<<WordBoundary>> \o [k \in 1..Len(phrase) |-> Literal(phrase[k])]
           \o <<WordBoundary>>, TRUE)

\* text.split(/\s+/).length
SplitLength(text) ==
  1 + Cardinality({k \in 1..Len(text) :
                     IsSpace(text[k]) /\ (k = Len(text) \/ ~IsSpace(text[k + 1]))})

\* emotionPatterns, in the order Object.entries visits them; weights in tenths
emotionPatterns ==
  <<
    [emotion |-> "enthusiastic", weight |-> 12,
     phrases |-> <<
        <<"e", "x", "c", "i", "t", "e", "d">>,
        <<"p", "a", "s", "s", "i", "o", "n", "a", "t", "e">>,
        <<"l", "o", "v", "e">>,
        <<"t", "h", "r", "i", "l", "l", "e", "d">>,
        <<"c", "a", "n", "'", "t", " ", "w", "a", "i", "t">>,
        <<"l", "o", "o", "k", "i", "n", "g", " ", "f", "o", "r", "w", "a", "r",
            "d">>,
        <<"e", "a", "g", "e", "r">>
     >>,
     expressionPatterns |-> <<
        \* /!{1,}/g
        RegExp(<<OneOrMore("!")>>, FALSE),
        \* /\bgreat\b/g
        RegExp(<<WordBoundary, Literal("g"), Literal("r"), Literal("e"),
                 Literal("a"), Literal("t"), WordBoundary>>, FALSE),
        \* /\bexcellent\b/g
        RegExp(<<WordBoundary, Literal("e"), Literal("x"), Literal("c"),
                 Literal("e"), Literal("l"), Literal("l"), Literal("e"),
                 Literal("n"), Literal("t"), WordBoundary>>, FALSE),
        \* /\bamazing\b/g
        RegExp(<<WordBoundary, Literal("a"), Literal("m"), Literal("a"),
                 Literal("z"), Literal("i"), Literal("n"), Literal("g"),
                 WordBoundary>>, FALSE)
     >>],
    [emotion |-> "confident", weight |-> 15,
     phrases |-> <<
        <<"c", "e", "r", "t", "a", "i", "n">>,
        <<"s", "u", "r", "e">>,
        <<"c", "o", "n", "f", "i", "d", "e", "n", "t">>,
        <<"d", "e", "f", "i", "n", "i", "t", "e", "l", "y">>,
        <<"a", "b", "s", "o", "l", "u", "t", "e", "l", "y">>,
        <<"I", " ", "k", "n", "o", "w">>,
        <<"I", "'", "v", "e", " ", "a", "c", "c", "o", "m", "p", "l", "i", "s",
            "h", "e", "d">>,
        <<"I", " ", "l", "e", "d">>,
        <<"I", " ", "a", "c", "h", "i", "e", "v", "e", "d">>
     >>,
     expressionPatterns |-> <<
        \* /\bI [a-z]+ [a-z]+ experience\b/gi
        RegExp(<<WordBoundary, Literal("I"), Literal(" "),
                 OneOrMore("a-z"), Literal(" "), OneOrMore("a-z"),
                 Literal(" "), Literal("e"), Literal("x"), Literal("p"),
                 Literal("e"), Literal("r"), Literal("i"), Literal("e"),
                 Literal("n"), Literal("c"), Literal("e"), WordBoundary>>, TRUE),
        \* /\bmy strength\b/gi
        RegExp(<<WordBoundary, Literal("m"), Literal("y"), Literal(" "),
                 Literal("s"), Literal("t"), Literal("r"), Literal("e"),
                 Literal("n"), Literal("g"), Literal("t"), Literal("h"),
                 WordBoundary>>, TRUE),
        \* /\bI succeeded\b/gi
        RegExp(<<WordBoundary, Literal("I"), Literal(" "), Literal("s"),
                 Literal("u"), Literal("c"), Literal("c"), Literal("e"),
                 Literal("e"), Literal("d"), Literal("e"), Literal("d"),
                 WordBoundary>>, TRUE)
     >>],
    [emotion |-> "engaged", weight |-> 13,
     phrases |-> <<
        <<"i", "n", "t", "e", "r", "e", "s", "t", "i", "n", "g">>,
        <<"c", "u", "r", "i", "o", "u", "s">>,
        <<"t", "e", "l", "l", " ", "m", "e", " ", "m", "o", "r", "e">>,
        <<"q", "u", "e", "s", "t", "i", "o", "n">>,
        <<"w", "o", "n", "d", "e", "r">>,
        <<"u", "n", "d", "e", "r", "s", "t", "a", "n", "d">>,
        <<"l", "e", "a", "r", "n", " ", "a", "b", "o", "u", "t">>,
        <<"r", "e", "s", "e", "a", "r", "c", "h">>,
        <<"e", "x", "p", "l", "o", "r", "e", "d">>
     >>,
     expressionPatterns |-> <<
        \* /\?/g
        RegExp(<<Literal("?")>>, FALSE),
        \* /\bfor example\b/gi
        RegExp(<<WordBoundary, Literal("f"), Literal("o"), Literal("r"),
                 Literal(" "), Literal("e"), Literal("x"), Literal("a"),
                 Literal("m"), Literal("p"), Literal("l"), Literal("e"),
                 WordBoundary>>, TRUE),
        \* /\bspecifically\b/gi
        RegExp(<<WordBoundary, Literal("s"), Literal("p"), Literal("e"),
                 Literal("c"), Literal("i"), Literal("f"), Literal("i"),
                 Literal("c"), Literal("a"), Literal("l"), Literal("l"),
                 Literal("y"), WordBoundary>>, TRUE),
        \* /\bin particular\b/gi
        RegExp(<<WordBoundary, Literal("i"), Literal("n"), Literal(" "),
                 Literal("p"), Literal("a"), Literal("r"), Literal("t"),
                 Literal("i"), Literal("c"), Literal("u"), Literal("l"),
                 Literal("a"), Literal("r"), WordBoundary>>, TRUE)
     >>],
    [emotion |-> "thoughtful", weight |-> 10,
     phrases |-> <<
        <<"t", "h", "i", "n", "k">>,
        <<"c", "o", "n", "s", "i", "d", "e", "r">>,
        <<"p", "e", "r", "h", "a", "p", "s">>,
        <<"m", "a", "y", "b", "e">>,
        <<"m", "i", "g", "h", "t">>,
        <<"r", "e", "f", "l", "e", "c", "t">>,
        <<"a", "n", "a", "l", "y", "z", "e">>,
        <<"e", "v", "a", "l", "u", "a", "t", "e">>
     >>,
     expressionPatterns |-> <<
        \* /\bon one hand\b/gi
        RegExp(<<WordBoundary, Literal("o"), Literal("n"), Literal(" "),
                 Literal("o"), Literal("n"), Literal("e"), Literal(" "),
                 Literal("h"), Literal("a"), Literal("n"), Literal("d"),
                 WordBoundary>>, TRUE),
        \* /\bon the other hand\b/gi
        RegExp(<<WordBoundary, Literal("o"), Literal("n"), Literal(" "),
                 Literal("t"), Literal("h"), Literal("e"), Literal(" "),
                 Literal("o"), Literal("t"), Literal("h"), Literal("e"),
                 Literal("r"), Literal(" "), Literal("h"), Literal("a"),
                 Literal("n"), Literal("d"), WordBoundary>>, TRUE),
        \* /\bhowever\b/gi
        RegExp(<<WordBoundary, Literal("h"), Literal("o"), Literal("w"),
                 Literal("e"), Literal("v"), Literal("e"), Literal("r"),
                 WordBoundary>>, TRUE),
        \* /\btherefore\b/gi
        RegExp(<<WordBoundary, Literal("t"), Literal("h"), Literal("e"),
                 Literal("r"), Literal("e"), Literal("f"), Literal("o"),
                 Literal("r"), Literal("e"), WordBoundary>>, TRUE)
     >>],
    [emotion |-> "uncertain", weight |-> 8,
     phrases |-> <<
        <<"n", "o", "t", " ", "s", "u", "r", "e">>,
        <<"p", "o", "s", "s", "i", "b", "l", "y">>,
        <<"I", " ", "g", "u", "e", "s", "s">>,
        <<"k", "i", "n", "d", " ", "o", "f">>,
        <<"s", "o", "r", "t", " ", "o", "f">>,
        <<"s", "o", "m", "e", "w", "h", "a", "t">>,
        <<"I", " ", "t", "h", "i", "n", "k">>,
        <<"t", "y", "p", "i", "c", "a", "l", "l", "y">>
     >>,
     expressionPatterns |-> <<
        \* /\bmaybe\b/gi
        RegExp(<<WordBoundary, Literal("m"), Literal("a"), Literal("y"),
                 Literal("b"), Literal("e"), WordBoundary>>, TRUE),
        \* /\bperhaps\b/gi
        RegExp(<<WordBoundary, Literal("p"), Literal("e"), Literal("r"),
                 Literal("h"), Literal("a"), Literal("p"), Literal("s"),
                 WordBoundary>>, TRUE),
        \* /\bI'm not certain\b/gi
        RegExp(<<WordBoundary, Literal("I"), Literal("'"), Literal("m"),
                 Literal(" "), Literal("n"), Literal("o"), Literal("t"),
                 Literal(" "), Literal("c"), Literal("e"), Literal("r"),
                 Literal("t"), Literal("a"), Literal("i"), Literal("n"),
                 WordBoundary>>, TRUE),
        \* /\bcould be\b/gi
        RegExp(<<WordBoundary, Literal("c"), Literal("o"), Literal("u"),
                 Literal("l"), Literal("d"), Literal(" "), Literal("b"),
                 Literal("e"), WordBoundary>>, TRUE)
     >>],
    [emotion |-> "nervous", weight |-> 7,
     phrases |-> <<
        <<"s", "o", "r", "r", "y">>,
        <<"a", "p", "o", "l", "o", "g", "i", "z", "e">>,
        <<"n", "e", "r", "v", "o", "u", "s">>,
        <<"w", "o", "r", "r", "i", "e", "d">>,
        <<"c", "o", "n", "c", "e", "r", "n">>,
        <<"s", "t", "r", "e", "s", "s">>,
        <<"a", "n", "x", "i", "e", "t", "y">>,
        <<"m", "i", "s", "t", "a", "k", "e">>
     >>,
     expressionPatterns |-> <<
        \* /um+/gi
        RegExp(<<Literal("u"), OneOrMore("m")>>, TRUE),
        \* /uh+/gi
        RegExp(<<Literal("u"), OneOrMore("h")>>, TRUE),
        \* /er+/gi
        RegExp(<<Literal("e"), OneOrMore("r")>>, TRUE),
        \* /\bI apologize\b/gi
        RegExp(<<WordBoundary, Literal("I"), Literal(" "), Literal("a"),
                 Literal("p"), Literal("o"), Literal("l"), Literal("o"),
                 Literal("g"), Literal("i"), Literal("z"), Literal("e"),
                 WordBoundary>>, TRUE),
        \* /\bsorry about\b/gi
        RegExp(<<WordBoundary, Literal("s"), Literal("o"), Literal("r"),
                 Literal("r"), Literal("y"), Literal(" "), Literal("a"),
                 Literal("b"), Literal("o"), Literal("u"), Literal("t"),
                 WordBoundary>>, TRUE)
     >>],
    [emotion |-> "disinterested", weight |-> 5,
     phrases |-> <<
        <<"w", "h", "a", "t", "e", "v", "e", "r">>,
        <<"d", "o", "e", "s", "n", "'", "t", " ", "m", "a", "t", "t", "e", "r">>,
        <<"I", " ", "d", "o", "n", "'", "t", " ", "k", "n", "o", "w">>,
        <<"n", "o", "t", " ", "s", "u", "r", "e", " ", "w", "h", "y">>,
        <<"n", "o", "t", " ", "i", "n", "t", "e", "r", "e", "s", "t", "e", "d">>
     >>,
     expressionPatterns |-> <<
        \* /\bbasically\b/gi
        RegExp(<<WordBoundary, Literal("b"), Literal("a"), Literal("s"),
                 Literal("i"), Literal("c"), Literal("a"), Literal("l"),
                 Literal("l"), Literal("y"), WordBoundary>>, TRUE),
        \* /\banyway\b/gi
        RegExp(<<WordBoundary, Literal("a"), Literal("n"), Literal("y"),
                 Literal("w"), Literal("a"), Literal("y"), WordBoundary>>, TRUE),
        \* /\bnot really\b/gi
        RegExp(<<WordBoundary, Literal("n"), Literal("o"), Literal("t"),
                 Literal(" "), Literal("r"), Literal("e"), Literal("a"),
                 Literal("l"), Literal("l"), Literal("y"), WordBoundary>>, TRUE)
     >>]
  >>

----------------------------------------------------------------------------
(***************************************************************************)
(* analyzeSentiment and its helpers (sentimentAnalysis.ts, second copy of  *)
(* the file, from line 629)                                                *)
(***************************************************************************)
\* interface Message; timestamp 0 stands for a missing (or zero) timestamp,
\* id <<>> for a missing (or empty) id: the code reads both through ||
Message(role, content, timestamp, id) ==
  [role |-> role, content |-> content, timestamp |-> timestamp, id |-> id]

SentimentResult(overall, confidence, enthusiasm, nervousness, engagement, journey) ==
  [overall |-> overall, confidence |-> confidence, enthusiasm |-> enthusiasm,
   nervousness |-> nervousness, engagement |-> engagement,
   emotionalJourney |-> journey]

createDefaultSentimentResult == SentimentResult("neutral", 50, 50, 50, 50, <<>>)

RECURSIVE SumSeq(_, _)
SumSeq(f, n) == IF n = 0 THEN 0 ELSE f[n] + SumSeq(f, n - 1)

\* allText: the lowercased contents joined by " "
RECURSIVE JoinTexts(_, _)
JoinTexts(texts, sep) ==
  IF Len(texts) = 0 THEN <<>>
  ELSE IF Len(texts) = 1 THEN texts[1]
  ELSE texts[1] \o sep \o JoinTexts(Tail(texts), sep)

\* the expressions the first loop builds from the phrases of each emotion
phraseRegExps ==
  [e \in 1..Len(emotionPatterns) |->
     [k \in 1..Len(emotionPatterns[e].phrases) |->
        PhraseRegExp(emotionPatterns[e].phrases[k])]]

\* emotionScores[emotion] over allText, in tenths: the matches of the
\* emotion's phrases and of its expressionPatterns, times its weight
TextEmotionScore(allText, patterns, regExps) ==
  patterns.weight *
    ( SumSeq([k \in 1..Len(regExps) |-> MatchCount(allText, regExps[k])],
             Len(regExps))
    + SumSeq([k \in 1..Len(patterns.expressionPatterns) |->
                MatchCount(allText, patterns.expressionPatterns[k])],
             Len(patterns.expressionPatterns)) )

\* messageEmotions[emotion] of one message of the journey, in tenths
MessageEmotionScore(text, patterns) ==
  patterns.weight *
    ( Cardinality({k \in 1..Len(patterns.phrases) :
                     includes(text, patterns.phrases[k])})
    + SumSeq([k \in 1..Len(patterns.expressionPatterns) |->
                MatchCount(text, patterns.expressionPatterns[k])],
             Len(patterns.expressionPatterns)) )

EmotionIndex(table, emotion) ==
  CHOOSE k \in 1..Len(table) : table[k].emotion = emotion

\* normalizeValue of tenths/10: Math.max(0, Math.min(100, Math.round(value)))
normalizeValue(tenths) == Max2(0, Min2(100, RoundDiv(tenths, 10)))

\* the engagement bonus of the response length or of the word count:
\* three, two or one times the weight of "engaged" (total compared with
\* high, mid and low times the number of messages)
EngagementBonus(total, n, high, mid, low, engagedWeight) ==
  IF total > high * n THEN 3 * engagedWeight
  ELSE IF total > mid * n THEN 2 * engagedWeight
  ELSE IF total > low * n THEN engagedWeight
  ELSE 0

\* emotionScores after the pattern loop and the engagement bonuses, in tenths
BasicEmotionScores(table, regExps, candidateMessages) ==
  LET n == Len(candidateMessages)
      allText == JoinTexts([k \in 1..n |-> toLowerCase(candidateMessages[k].content)],
                           <<" ">>)
      textScores == [k \in 1..Len(table) |->
                       TextEmotionScore(allText, table[k], regExps[k])]
      totalLength == SumSeq([k \in 1..n |-> Len(candidateMessages[k].content)], n)
      engagedWeight == table[EmotionIndex(table, "engaged")].weight
      \* avgResponseLength = totalLength / n, avgWordsPerResponse = wordCount / n
      bonus == EngagementBonus(totalLength, n, 500, 300, 100, engagedWeight)
                 + EngagementBonus(SplitLength(allText), n, 100, 50, 25, engagedWeight)
  IN [e \in {table[k].emotion : k \in 1..Len(table)} |->
        textScores[EmotionIndex(table, e)] + (IF e = "engaged" THEN bonus ELSE 0)]

\* part / total > 0.6 as the doubles decide it, part and total being sums of
\* weights in tenths.  The two agree with exact arithmetic except where the
\* exact quotient is 0.6: for these operands (all there are with a total
\* up to 30.0) the double quotient is 0.6000000000000001, e.g. 2.7 / 4.5.
TiesAboveSixTenths ==
  {<<27, 45>>, <<54, 90>>, <<93, 155>>, <<108, 180>>, <<123, 205>>,
   <<171, 285>>}

RatioAboveSixTenths(part, total) ==
  10 * part > 6 * total \/ <<part, total>> \in TiesAboveSixTenths

\* overall: the side whose ratio to the emotion total is above 0.6, else
\* neutral
BasicOverall(positiveEmotions, negativeEmotions, neutralEmotions) ==
  IF positiveEmotions + negativeEmotions + neutralEmotions > 0
     /\ RatioAboveSixTenths(positiveEmotions,
          positiveEmotions + negativeEmotions + neutralEmotions)
  THEN "positive"
  ELSE IF positiveEmotions + negativeEmotions + neutralEmotions > 0
          /\ RatioAboveSixTenths(negativeEmotions,
               positiveEmotions + negativeEmotions + neutralEmotions)
  THEN "negative"
  ELSE "neutral"

\* the result analyzeWithBasicApproach builds from emotionScores and the journey
BasicResult(emotionScores, emotionalJourney) ==
  SentimentResult(
    BasicOverall(emotionScores["enthusiastic"] + emotionScores["confident"]
                   + emotionScores["engaged"],
                 emotionScores["uncertain"] + emotionScores["nervous"]
                   + emotionScores["disinterested"],
                 emotionScores["thoughtful"]),
    \* baseConfidence, baseEnthusiasm, baseNervousness, baseEngagement
    normalizeValue(500 + emotionScores["confident"] * 2
                     - emotionScores["uncertain"] * 2 - emotionScores["nervous"]),
    normalizeValue(500 + emotionScores["enthusiastic"] * 3
                     - emotionScores["disinterested"] * 2),
    normalizeValue(500 + emotionScores["nervous"] * 3 - emotionScores["confident"]),
    normalizeValue(500 + emotionScores["engaged"] * 2 + emotionScores["enthusiastic"]
                     - emotionScores["disinterested"] * 3),
    emotionalJourney)

\* maxScore of one message: the largest entry of messageEmotions (0 if none is positive)
MaxScore(messageEmotions) ==
  IF \E k \in DOMAIN messageEmotions : messageEmotions[k] > 0
  THEN messageEmotions[CHOOSE k \in DOMAIN messageEmotions :
         \A m \in DOMAIN messageEmotions : messageEmotions[k] >= messageEmotions[m]]
  ELSE 0

\* dominantEmotion of the message at index: the first emotion holding maxScore,
\* or the default of the interview stage when maxScore < 1
JourneyEmotion(table, messageEmotions, maxScore, index, d) ==
  IF maxScore < 10
  THEN IF 10 * index < 2 * d THEN "uncertain"
       ELSE IF 10 * index < 4 * d THEN "thoughtful"
       ELSE IF 10 * index < 7 * d THEN "engaged"
       ELSE "confident"
  ELSE table[CHOOSE k \in 1..Len(table) :
               /\ messageEmotions[k] = maxScore
               /\ \A m \in 1..(k - 1) : messageEmotions[m] < maxScore].emotion

\* intensity: 50 + lengthFactor + wordFactor + positionFactor + emotionFactor,
\* emotionFactor = Math.floor(maxScore * 10) being the score in tenths
JourneyIntensity(text, maxScore, index, d) ==
  Max2(0, Min2(100, 50 + Min2(30, Len(text) \div 100)
                       + Min2(20, SplitLength(text) \div 15)
                       + (15 * index) \div d
                       + maxScore))

\* the sample analyzeWithBasicApproach computes for candidateMessages[index + 1];
\* d is the divisor of progress = index / Math.max(1, length - 1)
BasicJourneyEntry(table, msg, messageEmotions, n, index, clock) ==
  [timestamp |-> IF msg.timestamp # 0 THEN msg.timestamp
                 ELSE clock - (n - index) * 60000,
   emotion   |-> JourneyEmotion(table, messageEmotions, MaxScore(messageEmotions),
                                index, Max2(1, n - 1)),
   intensity |-> JourneyIntensity(toLowerCase(msg.content), MaxScore(messageEmotions),
                                  index, Max2(1, n - 1))]

BasicJourneySample(table, candidateMessages, index, clock) ==
  BasicJourneyEntry(table, candidateMessages[index + 1],
                    [k \in 1..Len(table) |->
                       MessageEmotionScore(toLowerCase(candidateMessages[index + 1].content),
                                           table[k])],
                    Len(candidateMessages), index, clock)

analyzeWithBasicApproach(candidateMessages, clock) ==
  BasicResult(BasicEmotionScores(emotionPatterns, phraseRegExps, candidateMessages),
              [k \in 1..Len(candidateMessages) |->
                 BasicJourneySample(emotionPatterns, candidateMessages, k - 1, clock)])

----------------------------------------------------------------------------
(***************************************************************************)
(* The model-backed path of analyzeSentiment.  A chat completion either    *)
(* fails (the request, the empty-content check or JSON.parse throws) or    *)
(* yields the parsed JSON value, whatever the model chose to write.        *)
(***************************************************************************)
batchSize == 3
contextSize == 1

Text(chars) == [type |-> "string", text |-> chars]

\* the parsed object of analyzeOverallSentiment's completion
OverallAnswer(overall, confidence, enthusiasm, nervousness, engagement) ==
  [ok |-> TRUE, overall |-> overall, confidence |-> confidence,
   enthusiasm |-> enthusiasm, nervousness |-> nervousness,
   engagement |-> engagement]

OverallAnswers ==
  { OverallAnswer(Text("positive"), Num(80), Num(70), Num(20), Num(90)),
    OverallAnswer(Missing, Missing, Missing, Missing, Missing),
    OverallAnswer(Text("mixed"), Num(150), Num(0), Num(-10), Num(100)) }

OverallOutcomes == {ModelFailed} \cup OverallAnswers

\* result.x || 50
OrDefault(v, default) == IF Truthy(v) THEN v.val ELSE default

analyzeOverallSentiment(outcome) ==
  IF ~outcome.ok
  THEN [overall |-> "neutral", confidence |-> 50, enthusiasm |-> 50,
        nervousness |-> 50, engagement |-> 50]
  ELSE [overall     |-> IF outcome.overall.type = "string" /\ outcome.overall.text # ""
                        THEN outcome.overall.text ELSE "neutral",
        confidence  |-> OrDefault(outcome.confidence, 50),
        enthusiasm  |-> OrDefault(outcome.enthusiasm, 50),
        nervousness |-> OrDefault(outcome.nervousness, 50),
        engagement  |-> OrDefault(outcome.engagement, 50)]

\* one element of the array the journey completion parses to
ModelSample(emotion, intensity) == [emotion |-> emotion, intensity |-> intensity]

ModelSamples ==
  { ModelSample(Text("enthusiastic"), Num(90)),
    ModelSample(Missing, Missing) }

\* JSON.parse gave an object that is no array: emotionResults.length is
\* undefined and no index is below it
NotAnArray == [ok |-> TRUE, type |-> "object", items |-> <<>>]

EmotionResults(items) == [ok |-> TRUE, type |-> "array", items |-> items]

\* the model answers with at most one entry per message it was asked about
BatchOutcomes(targets) ==
  {ModelFailed, NotAnArray} \cup
  UNION {{EmotionResults(items) : items \in [1..k -> ModelSamples]} : k \in 0..targets}

\* messages.filter((_, idx) => !contextIndices[idx])
RECURSIVE TargetsFrom(_, _, _)
TargetsFrom(batch, contextIndices, idx) ==
  IF idx > Len(batch) THEN <<>>
  ELSE (IF contextIndices[idx] THEN <<>> ELSE <<batch[idx]>>)
         \o TargetsFrom(batch, contextIndices, idx + 1)

analyzeMessageBatchWithContext(batch, contextIndices, outcome, clock) ==
  LET targetMessages == TargetsFrom(batch, contextIndices, 1)
  IN IF outcome.ok
     THEN \* index < emotionResults.length
          LET n == IF outcome.type = "array"
                   THEN Min2(Len(targetMessages), Len(outcome.items)) ELSE 0
          IN [k \in 1..n |->
                LET msg == targetMessages[k]
                    index == k - 1
                IN Sample(IF msg.timestamp # 0 THEN msg.timestamp
                          ELSE clock - (Len(targetMessages) - index) * 60000,
                          IF outcome.items[k].emotion.type = "string"
                          THEN outcome.items[k].emotion.text ELSE "neutral",
                          OrDefault(outcome.items[k].intensity, 50))]
     ELSE \* catch: the fallback for the batch
          [k \in 1..Len(targetMessages) |->
             LET msg == targetMessages[k]
                 index == k - 1
             IN Sample(IF msg.timestamp # 0 THEN msg.timestamp
                       ELSE clock - (Len(batch) - index) * 60000,
                       "neutral",
                       50 + index * 5)]

\* number of iterations of for (let i = 0; i < n; i += batchSize)
BatchCount(n) == (n + batchSize - 1) \div batchSize

\* the [ANALYZE] messages of iteration b (1-based)
BatchTargets(n, b) == Min2(n, b * batchSize) - (b - 1) * batchSize

\* the entries iteration b pushes onto journey
BatchEntries(candidateMessages, b, outcome, clock) ==
  LET i == (b - 1) * batchSize
      startIndex == Max2(0, i - contextSize)
      \* candidateMessages.slice(startIndex, i + batchSize)
      contextBatch == SubSeq(candidateMessages, startIndex + 1,
                             Min2(Len(candidateMessages), i + batchSize))
      contextIndices == [idx \in 1..Len(contextBatch) |-> startIndex + (idx - 1) < i]
      batchJourney == analyzeMessageBatchWithContext(contextBatch, contextIndices,
                                                     outcome, clock)
      contextCount == Cardinality({idx \in 1..Len(contextBatch) : contextIndices[idx]})
  IN \* batchJourney.slice(contextIndices.filter(Boolean).length)
     SubSeq(batchJourney, contextCount + 1, Len(batchJourney))

RECURSIVE JourneyFrom(_, _, _, _)
JourneyFrom(candidateMessages, b, outcomes, clock) ==
  IF b > BatchCount(Len(candidateMessages)) THEN <<>>
  ELSE BatchEntries(candidateMessages, b, outcomes[b], clock)
         \o JourneyFrom(candidateMessages, b + 1, outcomes, clock)

analyzeEmotionalJourney(candidateMessages, outcomes, clock) ==
  smoothEmotionalJourney(JourneyFrom(candidateMessages, 1, outcomes, clock))

\* what the completions of one analyzeSentiment call come to
ModelOutcomes(overall, batches) == [overall |-> overall, batches |-> batches]

\* the call with the length test left out
analyzeSentiment_NoEmptyCheck(chat, configured, outcomes, clock) ==
  LET candidateMessages == SelectSeq(chat, LAMBDA msg : msg.role = "user")
  IN IF ~configured
     THEN [result |-> analyzeWithBasicApproach(candidateMessages, clock),
           modelCalls |-> 0]
     ELSE LET overallMetrics == analyzeOverallSentiment(outcomes.overall)
              emotionalJourney ==
                analyzeEmotionalJourney(candidateMessages, outcomes.batches, clock)
          IN [result |-> SentimentResult(overallMetrics.overall,
                           overallMetrics.confidence, overallMetrics.enthusiasm,
                           overallMetrics.nervousness, overallMetrics.engagement,
                           emotionalJourney),
              modelCalls |-> 1 + BatchCount(Len(candidateMessages))]

\* analyzeSentiment: the result and the number of completions it requested
analyzeSentiment(chat, configured, outcomes, clock) ==
  LET candidateMessages == SelectSeq(chat, LAMBDA msg : msg.role = "user")
  IN IF Len(candidateMessages) = 0
     THEN [result |-> createDefaultSentimentResult, modelCalls |-> 0]
     ELSE IF ~configured
     THEN [result |-> analyzeWithBasicApproach(candidateMessages, clock),
           modelCalls |-> 0]
     ELSE LET overallMetrics == analyzeOverallSentiment(outcomes.overall)
              emotionalJourney ==
                analyzeEmotionalJourney(candidateMessages, outcomes.batches, clock)
          IN [result |-> SentimentResult(overallMetrics.overall,
                           overallMetrics.confidence, overallMetrics.enthusiasm,
                           overallMetrics.nervousness, overallMetrics.engagement,
                           emotionalJourney),
              modelCalls |-> 1 + BatchCount(Len(candidateMessages))]

UserCount(chat) == Len(SelectSeq(chat, LAMBDA msg : msg.role = "user"))

\* the completions a call can meet; a call that requests none meets none
SentimentOutcomes(chat, configured) ==
  LET n == UserCount(chat)
      nb == BatchCount(n)
  IN IF n = 0 \/ ~configured THEN {ModelOutcomes(ModelFailed, <<>>)}
     ELSE {ModelOutcomes(o, bs) :
             o \in OverallOutcomes,
             bs \in {f \in [1..nb -> BatchOutcomes(batchSize)] :
                       \A b \in 1..nb : f[b] \in BatchOutcomes(BatchTargets(n, b))}}

MaxMessages == 4

contentPlain == <<"o", "k">>
contentExcited == <<"I", " ", "a", "m", " ", "e", "x", "c", "i", "t", "e", "d", "!">>

\* the message of each kind at position k of a chat history
ChatMessage(kind, k) ==
  CASE kind = "plain"     -> Message("user", contentPlain, TimestampAt(k), <<>>)
    [] kind = "undated"   -> Message("user", contentExcited, 0, <<>>)
    [] kind = "assistant" -> Message("assistant", contentPlain, TimestampAt(k), <<>>)

MessageKinds == {"plain", "undated", "assistant"}

Chats ==
  UNION {{[k \in 1..n |-> ChatMessage(kinds[k], k)] : kinds \in [1..n -> MessageKinds]} :
         n \in 0..MaxMessages}

\* Date.now() during the call
SentimentClock == 9000000

AnalyzeSentimentCall ==
  /\ sentimentResult = None
  /\ \E outcomes \in SentimentOutcomes(messages, openaiConfigured) :
       LET r == analyzeSentiment(messages, openaiConfigured, outcomes, now)
       IN /\ sentimentResult' = r.result
          /\ modelCalls' = r.modelCalls
  /\ UNCHANGED <<messages, envVars>>
  /\ UNCHANGED notSentVars

InitSent ==
  /\ messages \in Chats
  /\ sentimentResult = None
  /\ modelCalls = 0
  /\ openaiConfigured \in BOOLEAN
  /\ now = SentimentClock
  /\ CalIdle /\ SmoothIdle /\ BiasIdle /\ CacheIdle /\ ShiftIdle /\ HandlerIdle

NextSent == AnalyzeSentimentCall

SpecSent == InitSent /\ [][NextSent]_vars

UserMessages == SelectSeq(messages, LAMBDA msg : msg.role = "user")

\* C6: with no user message analyzeSentiment returns overall "neutral", the
\* four metrics at 50 and an empty trajectory, and requests no completion
C6_NoUserMessagesDefault ==
  (sentimentResult # None /\ Len(UserMessages) = 0) =>
    /\ sentimentResult.overall = "neutral"
    /\ sentimentResult.confidence = 50
    /\ sentimentResult.enthusiasm = 50
    /\ sentimentResult.nervousness = 50
    /\ sentimentResult.engagement = 50
    /\ sentimentResult.emotionalJourney = <<>>
    /\ modelCalls = 0

\* a non-empty chat without user messages was analysed with the model configured
C6_Witness ==
  /\ sentimentResult # None
  /\ Len(messages) > 0
  /\ Len(UserMessages) = 0
  /\ openaiConfigured

\* C8: the trajectory has exactly one sample per user message, each with that
\* message's timestamp, on every path of analyzeSentiment
C8_OneSamplePerUserMessage ==
  sentimentResult # None =>
    /\ Len(sentimentResult.emotionalJourney) = Len(UserMessages)
    /\ \A k \in 1..Len(UserMessages) :
         UserMessages[k].timestamp # 0 =>
           sentimentResult.emotionalJourney[k].timestamp = UserMessages[k].timestamp

InPercentRange(v) == v >= 0 /\ v <= 100

\* C25: every result of analyzeSentiment, rule-based, model-backed or
\* fallback, has confidence, enthusiasm, nervousness and engagement within
\* [0,100] and every trajectory sample's intensity within [0,100]
C25_MetricsWithinRange ==
  sentimentResult # None =>
    /\ InPercentRange(sentimentResult.confidence)
    /\ InPercentRange(sentimentResult.enthusiasm)
    /\ InPercentRange(sentimentResult.nervousness)
    /\ InPercentRange(sentimentResult.engagement)
    /\ \A k \in 1..Len(sentimentResult.emotionalJourney) :
         InPercentRange(sentimentResult.emotionalJourney[k].intensity)

\* the same for the results computed without a model answer
MetricsWithinRangeWithoutModel ==
  (sentimentResult # None /\ ~openaiConfigured) =>
    /\ InPercentRange(sentimentResult.confidence)
    /\ InPercentRange(sentimentResult.enthusiasm)
    /\ InPercentRange(sentimentResult.nervousness)
    /\ InPercentRange(sentimentResult.engagement)
    /\ \A k \in 1..Len(sentimentResult.emotionalJourney) :
         InPercentRange(sentimentResult.emotionalJourney[k].intensity)

----------------------------------------------------------------------------
(***************************************************************************)
(* The rule-based summarizer on its own: analyzeSentiment without a        *)
(* configured model, on chats of user messages that carry indicators of    *)
(* several emotions.                                                       *)
(***************************************************************************)
MaxBasicMessages == 3

\* contents: no indicator; enthusiastic 1.2 + confident 1.5 against
\* thoughtful 1.0 + uncertain 0.8 (positive 2.7 of 4.5); nervous only;
\* enthusiastic 1.2 against uncertain 0.8 + disinterested 1.0 (negative 1.8
\* of 3.0)
contentLoveSureMaybe ==
  <<"l", "o", "v", "e", " ", "s", "u", "r", "e", " ", "m", "a", "y", "b",
    "e">>
contentSorry == <<"s", "o", "r", "r", "y">>
contentLoveAnyway ==
  <<"l", "o", "v", "e", " ", "p", "o", "s", "s", "i", "b", "l", "y", " ",
    "a", "n", "y", "w", "a", "y", " ", "a", "n", "y", "w", "a", "y">>

BasicMessage(kind, k) ==
  CASE kind = "plain"   -> Message("user", contentPlain, TimestampAt(k), <<>>)
    [] kind = "tie"     -> Message("user", contentLoveSureMaybe, TimestampAt(k), <<>>)
    [] kind = "sorry"   -> Message("user", contentSorry, TimestampAt(k), <<>>)
    [] kind = "negtie"  -> Message("user", contentLoveAnyway, TimestampAt(k), <<>>)

BasicKinds == {"plain", "tie", "sorry", "negtie"}

InitBasic ==
  /\ \E n \in 0..MaxBasicMessages :
       \E kinds \in [1..n -> BasicKinds] :
         messages = [k \in 1..n |-> BasicMessage(kinds[k], k)]
  /\ sentimentResult = None
  /\ modelCalls = 0
  /\ openaiConfigured = FALSE
  /\ now = SentimentClock
  /\ CalIdle /\ SmoothIdle /\ BiasIdle /\ CacheIdle /\ ShiftIdle /\ HandlerIdle

NextBasic == AnalyzeSentimentCall

SpecBasic == InitBasic /\ [][NextBasic]_vars

\* the pooled buckets of the analysed chat, in tenths
Pooled(emotionScores) ==
  [positive |-> emotionScores["enthusiastic"] + emotionScores["confident"]
                  + emotionScores["engaged"],
   negative |-> emotionScores["uncertain"] + emotionScores["nervous"]
                  + emotionScores["disinterested"],
   neutral  |-> emotionScores["thoughtful"]]

PooledBuckets ==
  Pooled(BasicEmotionScores(emotionPatterns, phraseRegExps, UserMessages))

\* the label the ratios give: positive / total > 0.6, negative / total > 0.6
RatioLabel(b) ==
  IF b.positive + b.negative + b.neutral > 0
     /\ 10 * b.positive > 6 * (b.positive + b.negative + b.neutral)
  THEN "positive"
  ELSE IF b.positive + b.negative + b.neutral > 0
          /\ 10 * b.negative > 6 * (b.positive + b.negative + b.neutral)
  THEN "negative"
  ELSE "neutral"

RuleBasedResult ==
  sentimentResult # None /\ ~openaiConfigured /\ Len(UserMessages) > 0

\* C24: in the rule-based summarizer overall is "positive" iff the total of
\* the pooled buckets is above 0 and positive / total > 0.6, "negative" iff
\* the total is above 0 and negative / total > 0.6, "neutral" otherwise: a
\* function of the ratios alone, unchanged when all buckets are scaled by
\* one factor
C24_OverallByRatio ==
  RuleBasedResult => sentimentResult.overall = RatioLabel(PooledBuckets)

\* where the summarizer departs from the ratios: only where a ratio is 0.6
OverallByRatioButTies ==
  RuleBasedResult =>
    \/ sentimentResult.overall = RatioLabel(PooledBuckets)
    \/ 10 * PooledBuckets.positive
         = 6 * (PooledBuckets.positive + PooledBuckets.negative
                  + PooledBuckets.neutral)
    \/ 10 * PooledBuckets.negative
         = 6 * (PooledBuckets.positive + PooledBuckets.negative
                  + PooledBuckets.neutral)

\* the chat of one, two or three messages "love sure maybe" has the buckets
\* of the single message scaled by its length, and the labels positive,
\* positive and neutral
ScaledTieLabels ==
  (RuleBasedResult
     /\ \A k \in 1..Len(messages) : messages[k].content = contentLoveSureMaybe) =>
    /\ PooledBuckets = [positive |-> 27 * Len(messages),
                        negative |-> 8 * Len(messages),
                        neutral  |-> 10 * Len(messages)]
    /\ sentimentResult.overall =
         (IF Len(messages) = 3 THEN "neutral" ELSE "positive")

----------------------------------------------------------------------------
(***************************************************************************)
(* The trajectories computed without a model answer: the emotionalJourney  *)
(* of analyzeWithBasicApproach, the per-batch fallback of                  *)
(* analyzeMessageBatchWithContext, and generateFallbackEmotionalJourney,   *)
(* the catch branch of analyzeEmotionalJourney.                            *)
(***************************************************************************)
\* the content tests of generateFallbackEmotionalJourney in their order, with
\* intensity = base + Math.floor(Math.random() * range)
fallbackIndicators == <<
  [emotion |-> "enthusiastic", base |-> 75, range |-> 15,
   terms |-> <<<<"e", "x", "c", "i", "t", "e", "d">>,
              <<"l", "o", "v", "e">>,
              <<"t", "h", "r", "i", "l", "l", "e", "d">>>>],
  [emotion |-> "confident", base |-> 70, range |-> 20,
   terms |-> <<<<"c", "o", "n", "f", "i", "d", "e", "n", "t">>,
              <<"c", "e", "r", "t", "a", "i", "n">>,
              <<"s", "u", "r", "e">>>>],
  [emotion |-> "engaged", base |-> 65, range |-> 20,
   terms |-> <<<<"i", "n", "t", "e", "r", "e", "s", "t", "i", "n", "g">>,
              <<"t", "e", "l", "l", " ", "m", "e", " ", "m", "o", "r", "e">>,
              <<"c", "u", "r", "i", "o", "u", "s">>>>],
  [emotion |-> "thoughtful", base |-> 60, range |-> 15,
   terms |-> <<<<"t", "h", "i", "n", "k">>,
              <<"c", "o", "n", "s", "i", "d", "e", "r">>,
              <<"p", "e", "r", "h", "a", "p", "s">>>>],
  [emotion |-> "uncertain", base |-> 40, range |-> 20,
   terms |-> <<<<"n", "o", "t", " ", "s", "u", "r", "e">>,
              <<"p", "o", "s", "s", "i", "b", "l", "y">>,
              <<"m", "i", "g", "h", "t">>>>],
  [emotion |-> "nervous", base |-> 45, range |-> 25,
   terms |-> <<<<"s", "o", "r", "r", "y">>,
              <<"n", "e", "r", "v", "o", "u", "s">>,
              <<"w", "o", "r", "r", "i", "e", "d">>>>]>>

\* Math.random() as a number of quarters: 0 or 0.75
RandomValues == {0, 3}

\* Math.floor(Math.random() * range)
RandomFloor(q, range) == (q * range) \div 4

\* the first content test that holds for the lower-cased text, 0 if none
RECURSIVE FallbackMatch(_, _, _)
FallbackMatch(table, text, k) ==
  IF k > Len(table) THEN 0
  ELSE IF \E t \in 1..Len(table[k].terms) : includes(text, table[k].terms[t])
  THEN k
  ELSE FallbackMatch(table, text, k + 1)

\* (length, index) for which the double product of the position pattern
\* falls just below the whole number it equals in exact arithmetic, e.g.
\* (1/3 - 0.2) * 100 * 0.6 = 7.999999999999999 (lengths up to 8)
FloorFallsShort ==
  {<<3, 1>>, <<3, 2>>, <<4, 1>>, <<5, 3>>, <<6, 2>>, <<6, 4>>, <<8, 2>>}

\* the position-based progression pattern, progress = index / length
PositionEmotion(index, n) ==
  IF 5 * index < n
  THEN IF index % 2 = 0 THEN "uncertain" ELSE "thoughtful"
  ELSE IF 2 * index < n
  THEN IF index % 2 = 0 THEN "thoughtful" ELSE "engaged"
  ELSE IF 5 * index < 4 * n
  THEN IF index % 2 = 0 THEN "engaged" ELSE "confident"
  ELSE IF index % 2 = 0 THEN "confident" ELSE "enthusiastic"

PositionIntensity(index, n) ==
  (IF 5 * index < n THEN 45 + (80 * index) \div n
   ELSE IF 2 * index < n THEN 55 + (60 * index - 12 * n) \div n
   ELSE IF 5 * index < 4 * n THEN 65 + (60 * index - 30 * n) \div n
   ELSE 75 + (50 * index - 40 * n) \div n)
  - (IF <<n, index>> \in FloorFallsShort THEN 1 ELSE 0)

\* one entry of generateFallbackEmotionalJourney: draw.first is the
\* Math.random() of the content test, draw.second the one of the variation
FallbackEntry(table, msg, match, index, n, draw, clock) ==
  [timestamp |-> IF msg.timestamp # 0 THEN msg.timestamp
                 ELSE clock - (n - index) * 60000,
   emotion   |-> IF match = 0 THEN PositionEmotion(index, n)
                 ELSE table[match].emotion,
   intensity |->
     Max2(30, Min2(95,
       (IF match = 0 THEN PositionIntensity(index, n)
        ELSE table[match].base + RandomFloor(draw.first, table[match].range))
       + (IF draw.second > 2 THEN 5 ELSE -5)))]

generateFallbackEmotionalJourney(candidateMessages, draws, clock) ==
  [k \in 1..Len(candidateMessages) |->
     FallbackEntry(fallbackIndicators, candidateMessages[k],
                   FallbackMatch(fallbackIndicators,
                                 toLowerCase(candidateMessages[k].content), 1),
                   k - 1, Len(candidateMessages), draws[k], clock)]

MaxJourneyMessages == 2

JourneyKinds == {"plain", "tie", "sorry"}

\* analyzeWithBasicApproach(candidateMessages).emotionalJourney
BasicJourneyCall ==
  /\ Len(journeys) < 2
  /\ journeySource \in {"none", "basic"}
  /\ journeys' = Append(journeys,
                        analyzeWithBasicApproach(UserMessages, now).emotionalJourney)
  /\ journeySource' = "basic"
  /\ UNCHANGED <<sentVars, envVars, calVars, biasVars, cacheVars, shiftVars,
                  handlerVars>>

\* analyzeEmotionalJourney when every batch completion fails: each batch
\* takes the fallback of analyzeMessageBatchWithContext
BatchFallbackCall ==
  /\ Len(journeys) < 2
  /\ journeySource \in {"none", "batchFallback"}
  /\ journeys' = Append(journeys,
                        analyzeEmotionalJourney(UserMessages,
                          [b \in 1..BatchCount(Len(UserMessages)) |-> ModelFailed],
                          now))
  /\ journeySource' = "batchFallback"
  /\ UNCHANGED <<sentVars, envVars, calVars, biasVars, cacheVars, shiftVars,
                  handlerVars>>

\* the catch branch of analyzeEmotionalJourney
JourneyFallbackCall ==
  /\ Len(journeys) < 2
  /\ journeySource \in {"none", "journeyFallback"}
  /\ \E draws \in [1..Len(UserMessages) ->
                     [first : RandomValues, second : RandomValues]] :
       journeys' = Append(journeys,
                          generateFallbackEmotionalJourney(UserMessages, draws, now))
  /\ journeySource' = "journeyFallback"
  /\ UNCHANGED <<sentVars, envVars, calVars, biasVars, cacheVars, shiftVars,
                  handlerVars>>

\* chats of user messages, each carrying a timestamp
InitJourney ==
  /\ \E n \in 1..MaxJourneyMessages :
       \E kinds \in [1..n -> JourneyKinds] :
         messages = [k \in 1..n |-> BasicMessage(kinds[k], k)]
  /\ sentimentResult = None
  /\ modelCalls = 0
  /\ openaiConfigured = TRUE
  /\ now = SentimentClock
  /\ CalIdle /\ SmoothIdle /\ BiasIdle /\ CacheIdle /\ ShiftIdle /\ HandlerIdle

NextJourney == BasicJourneyCall \/ BatchFallbackCall \/ JourneyFallbackCall

SpecJourney == InitJourney /\ [][NextJourney]_vars

IntensitiesOf(journey) == [k \in 1..Len(journey) |-> journey[k].intensity]

\* C26: two runs of one of the three functions on the same timestamped
\* messages yield identical labels and identical intensities
C26_TrajectoryIsFunctionOfMessages ==
  Len(journeys) = 2 =>
    /\ LabelsOf(journeys[1]) = LabelsOf(journeys[2])
    /\ IntensitiesOf(journeys[1]) = IntensitiesOf(journeys[2])

\* what holds: the labels of all three, and the intensities of
\* analyzeWithBasicApproach and of the per-batch fallback
LabelsAreFunctionOfMessages ==
  Len(journeys) = 2 =>
    /\ LabelsOf(journeys[1]) = LabelsOf(journeys[2])
    /\ journeySource # "journeyFallback" => journeys[1] = journeys[2]


----------------------------------------------------------------------------
(***************************************************************************)
(* POST of src/app/api/analyze-interview/route.ts and the mock service it  *)
(* falls back on (src/lib/ai/aiConfig.ts mockAIService).                   *)
(***************************************************************************)
\* Math.floor(Math.random() * 15) and Math.floor(Math.random() * 10)
MockDraws15 == {0, 7, 14}
MockDraws10 == {0, 9}

MockDraws ==
  [domain : MockDraws15, comm : MockDraws10, experience : MockDraws15,
   culture : MockDraws15, emotional : MockDraws15]

mockQualifiedReasoning ==
  "The candidate meets or exceeds the requirements for this position across all evaluation criteria. Their domain knowledge and relevant experience are particularly strong, and they communicate clearly. They demonstrate the necessary skills and experience to perform well in this role."
mockUnqualifiedReasoning ==
  "While the candidate has notable strengths, they don't fully meet the threshold requirements for this position. There are gaps in their domain knowledge and relevant experience that would make it challenging for them to succeed in this role without significant additional training."

\* mockAIService.analyzeInterview(chatHistory, responseTimes) with its five
\* Math.random draws given.  The weights are twentieths; for the draws of
\* MockDraws the double sum rounds as the exact sum does.
mockAnalyzeInterview(responseTimes, draw) ==
  LET n == Len(responseTimes)
      total == SumSeq(responseTimes, n)
      \* avgTime < limit, avgTime being 0 without response times
      AvgBelow(limit) == n = 0 \/ total < limit * n
      domainScore == draw.domain + 75
      commScore == IF AvgBelow(30) THEN draw.comm + 80 ELSE draw.comm + 70
      responseScore == IF AvgBelow(15) THEN 90
                       ELSE IF AvgBelow(30) THEN 80
                       ELSE IF AvgBelow(60) THEN 70 ELSE 60
      experienceScore == draw.experience + 75
      cultureFitScore == draw.culture + 75
      emotionalIntelligenceScore == draw.emotional + 75
      overallScore ==
        RoundDiv(4 * domainScore + 4 * commScore + 3 * responseScore
                   + 4 * experienceScore + 3 * cultureFitScore
                   + 2 * emotionalIntelligenceScore, 20)
      isQualified == /\ overallScore >= 75
                     /\ domainScore >= 70
                     /\ commScore >= 65
                     /\ experienceScore >= 70
  IN [scores |->
        [c \in Categories |->
           CASE c = "domainKnowledge"       -> Num(domainScore)
             [] c = "communication"         -> Num(commScore)
             [] c = "responseQuality"       -> Num(responseScore)
             [] c = "experienceRelevance"   -> Num(experienceScore)
             [] c = "culturalFit"           -> Num(cultureFitScore)
             [] c = "emotionalIntelligence" -> Num(emotionalIntelligenceScore)],
      overall |-> Num(overallScore),
      isQualified |-> isQualified,
      qualificationReasoning |->
        IF isQualified THEN mockQualifiedReasoning
        ELSE mockUnqualifiedReasoning]

MockAnalyses(responseTimes) ==
  {mockAnalyzeInterview(responseTimes, draw) : draw \in MockDraws}

\* mockAIService.analyzeSentiment(messages) on messages that carry none of
\* its indicator words: every count is 0, the label follows the position
mockAnalyzeSentiment(chat, clock) ==
  LET candidateMessages == SelectSeq(chat, LAMBDA msg : msg.role = "user")
      n == Len(candidateMessages)
      primaryEmotion(index) ==
        IF 10 * index < 3 * n THEN "uncertain"
        ELSE IF 10 * index < 7 * n
        THEN (IF index % 2 = 0 THEN "thoughtful" ELSE "engaged")
        ELSE (IF index % 2 = 0 THEN "confident" ELSE "enthusiastic")
      intensity(msg, index) ==
        (50 * 500 * Max2(1, n - 1)
           + 20 * 500 * Min2(index, Max2(1, n - 1))
           + 15 * Min2(500, Len(msg.content)) * Max2(1, n - 1))
          \div (500 * Max2(1, n - 1))
  IN SentimentResult("neutral", 50, 50, 50, 50,
       [i \in 1..n |->
          [timestamp |-> IF candidateMessages[i].timestamp # 0
                         THEN candidateMessages[i].timestamp
                         ELSE clock - (n - (i - 1)) * 60000,
           emotion |-> primaryEmotion(i - 1),
           intensity |-> Min2(100, intensity(candidateMessages[i], i - 1))]])

\* enhanceFeedbackQuality(result): neither the answer's reasoning nor the
\* calibrator's text matches an evidence pattern, so the note is appended
reasoningNote ==
  " [Note: This assessment would be strengthened with specific examples from the interview to support the qualification decision.]"

enhanceFeedbackQuality(r) ==
  [r EXCEPT !.qualificationReasoning = @ \o reasoningNote]

\* the body of the request: jobDescription present (non-empty) or not,
\* chatHistory and responseTimes missing, of another type, or arrays
Absent == [type |-> "undefined", items |-> <<>>]
NotArray == [type |-> "string", items |-> <<>>]
ArrayOf(items) == [type |-> "array", items |-> items]

RequestBody(jobDescription, chatHistory, responseTimes) ==
  [malformed |-> FALSE, jobDescription |-> jobDescription,
   chatHistory |-> chatHistory, responseTimes |-> responseTimes]

\* a body that request.json() rejects
MalformedRequest ==
  [malformed |-> TRUE, jobDescription |-> FALSE,
   chatHistory |-> Absent, responseTimes |-> Absent]

HandlerChats ==
  {<<>>, <<ChatMessage("plain", 1)>>,
   <<ChatMessage("assistant", 1), ChatMessage("plain", 2)>>}

\* seconds per answer; their mean falls in each class of avgTime
ResponseTimes == {<<>>, <<10>>, <<20>>, <<45>>, <<90>>, <<10, 45>>}

Requests ==
  {MalformedRequest} \cup
  {RequestBody(j, c, t) :
     j \in BOOLEAN,
     c \in {Absent, NotArray} \cup {ArrayOf(chat) : chat \in HandlerChats},
     t \in {Absent} \cup {ArrayOf(times) : times \in ResponseTimes}}

Response(status, path, body) ==
  [status |-> status, path |-> path, body |-> body]

\* {...mockResult, sentiment, biasMetrics: mockAIService.detectBias("")}
MockBody(mockResult, sentiment) ==
  [scores |-> mockResult.scores, overall |-> mockResult.overall,
   isQualified |-> mockResult.isQualified,
   qualificationReasoning |-> mockResult.qualificationReasoning,
   sentiment |-> sentiment,
   biasMetrics |-> mockServiceDetectBias(<<>>)]

\* the completion of the scoring request: no content (the request failed or
\* came back empty), content that JSON.parse rejects, an object without
\* scores (calibrateScores throws), an object without the strengths or
\* improvements arrays (enhanceFeedbackQuality throws), or a full answer
CompletionFailed == [kind |-> "failed", answer |-> None]
CompletionThrows == [kind |-> "throws", answer |-> None]
CompletionAnswer(answer) == [kind |-> "answer", answer |-> answer]

\* answers with domainKnowledge and emotionalIntelligence scored
HandlerAnswers ==
  {AnalysisInput(
     [c \in Categories |->
        CASE c = "domainKnowledge" -> d
          [] c = "emotionalIntelligence" -> e
          [] OTHER -> Missing], Num(70), q) :
     d \in {Num(60), Num(70)}, e \in {Missing, Num(40)}, q \in BOOLEAN}

Completions ==
  {CompletionFailed, CompletionThrows}
    \cup {CompletionAnswer(a) : a \in HandlerAnswers}

\* the text of the answer's explanations and summary handed to detectBias,
\* and what its model call comes to
evaluationText == textNeutral

HandlerBiasOutcomes ==
  {ModelFailed,
   [ok |-> TRUE, biasScore |-> Num(30), fairnessScore |-> Num(70),
    detectedBiases |-> [type |-> "array", items |-> <<ModelFinding>>],
    overallAssessment |-> [type |-> "string", text |-> ModelAssessment]]}

\* route.ts:377-424, the answer parsed
ParsedBodies(answer, sentiment) ==
  {[scores |-> r.scores, overall |-> r.overall,
    isQualified |-> r.isQualified,
    qualificationReasoning |-> r.qualificationReasoning,
    sentiment |-> sentiment,
    biasMetrics |-> detectBias(evaluationText, "jobDescription", TRUE, o)] :
     r \in {enhanceFeedbackQuality(c) : c \in CalibrateOutcomes(answer)},
     o \in HandlerBiasOutcomes}

\* route.ts:440-472: the second request.json() rejects, the body having been
\* read, and the mock service runs on empty inputs
OuterFallback(clock) ==
  {Response(200, "outerFallback",
            MockBody(m, mockAnalyzeSentiment(<<>>, clock))) :
     m \in MockAnalyses(<<>>)}

\* route.ts:85-104
NotConfigured(chat, times, clock) ==
  {Response(200, "notConfigured",
            MockBody(m, mockAnalyzeSentiment(chat, clock))) :
     m \in MockAnalyses(times)}

\* route.ts:106-438
Configured(chat, times, clock) ==
  UNION {
    LET sentiment == analyzeSentiment(chat, TRUE, so, clock).result
    IN UNION {
         CASE c.kind = "failed" ->
                {Response(200, "callFailed", MockBody(m, sentiment)) :
                   m \in MockAnalyses(times)}
           [] c.kind = "throws" ->
                {Response(200, "parseError", MockBody(m, sentiment)) :
                   m \in MockAnalyses(times)}
           [] OTHER ->
                {Response(200, "parsed", b) :
                   b \in ParsedBodies(c.answer, sentiment)} :
         c \in Completions} :
    so \in SentimentOutcomes(chat, TRUE)}

\* POST(request): the responses the handler can give
PostOutcomes(req, configured, clock) ==
  IF req.malformed THEN OuterFallback(clock)
  ELSE IF \/ ~req.jobDescription
          \/ req.chatHistory.type = "undefined"
          \/ req.responseTimes.type = "undefined"
  THEN {Response(400, "missing", [error |-> "Missing required parameters"])}
  ELSE IF req.chatHistory.type # "array" THEN OuterFallback(clock)
  ELSE IF ~configured
  THEN NotConfigured(req.chatHistory.items, req.responseTimes.items, clock)
  ELSE Configured(req.chatHistory.items, req.responseTimes.items, clock)

PostCall ==
  /\ response = None
  /\ \E r \in PostOutcomes(request, openaiConfigured, now) : response' = r
  /\ UNCHANGED <<request, envVars, calVars, smoothVars, biasVars, sentVars,
                 cacheVars, shiftVars>>

InitHandler ==
  /\ request \in Requests
  /\ response = None
  /\ openaiConfigured \in BOOLEAN
  /\ now = SentimentClock
  /\ CalIdle /\ SmoothIdle /\ BiasIdle /\ SentIdle /\ CacheIdle /\ ShiftIdle

NextHandler == PostCall

SpecHandler == InitHandler /\ [][NextHandler]_vars

Answered == response # None /\ response.status = 200

\* the rule as stated: every scored primary category >= 65, every scored
\* category >= 50, overall >= 65
StatedThresholdRule(body) ==
  /\ \A c \in Scored(body) \cap primaryCategories :
       body.scores[c].val >= primaryThreshold
  /\ \A c \in Scored(body) : body.scores[c].val >= minimumThreshold
  /\ Geq(body.overall, overallThreshold)

CarriesAll(body) ==
  {"scores", "sentiment", "biasMetrics"} \subseteq DOMAIN body

\* C29: every 200 response of the analyze-interview handler, on every path,
\* carries scores, sentiment and biasMetrics, and its isQualified equals the
\* threshold rule (primary categories >= 65, all categories >= 50,
\* overall >= 65) applied to the scores of that same response
C29_ResponseFollowsThresholdRule ==
  Answered =>
    /\ CarriesAll(response.body)
    /\ response.body.isQualified <=> StatedThresholdRule(response.body)

\* what holds: every 200 response carries the three fields
EveryResponseCarriesAll == Answered => CarriesAll(response.body)

\* what holds: a parsed answer leaves with the decision of
\* updateQualificationStatus on the scores it carries
ParsedFollowsCalibratorRule ==
  (Answered /\ response.path = "parsed") =>
    (response.body.isQualified <=>
       /\ primaryRequirementsMet(response.body.scores)
       /\ minimumRequirementsMet(response.body.scores)
       /\ overallRequirementMet(response.body.overall))

\* what holds: the mock service's scores always pass the threshold rule,
\* while its decision asks for an overall of 75
MockDecidesByOwnRule ==
  (Answered /\ response.path # "parsed") =>
    /\ StatedThresholdRule(response.body)
    /\ response.body.isQualified <=> Geq(response.body.overall, 75)

\* a mock response that passes the threshold rule and is not qualified
MockRejectsPassingScores ==
  /\ Answered
  /\ response.path = "notConfigured"
  /\ StatedThresholdRule(response.body)
  /\ ~response.body.isQualified

----------------------------------------------------------------------------
(***************************************************************************)
(* The caching layer of sentimentAnalysis.ts: generateCacheKey,            *)
(* getCachedSentiment, cacheSentimentResult, analyzeSentimentWithCache     *)
(***************************************************************************)
\* 60 * 60 * 1000
CACHE_TTL == 3600000

\* msg.content.substring(0, keyPrefixLength)
keyPrefixLength == 50

\* the printable ASCII characters in code order, in runs: the double quote
\* (34), the backslash (92) and the grave accent (96) occur in no modelled text
AsciiRuns ==
  << [first |-> 32, chars |-> <<" ", "!">>],
     [first |-> 35, chars |->
        <<"#", "$", "%", "&", "'", "(", ")", "*", "+", ",", "-", ".", "/",
          "0", "1", "2", "3", "4", "5", "6", "7", "8", "9", ":", ";", "<",
          "=", ">", "?", "@", "A", "B", "C", "D", "E", "F", "G", "H", "I",
          "J", "K", "L", "M", "N", "O", "P", "Q", "R", "S", "T", "U", "V",
          "W", "X", "Y", "Z", "[">>],
     [first |-> 93, chars |->
        <<"]", "^", "_">>],
     [first |-> 97, chars |->
        <<"a", "b", "c", "d", "e", "f", "g", "h", "i",
          "j", "k", "l", "m", "n", "o", "p", "q", "r", "s", "t", "u", "v",
          "w", "x", "y", "z", "{", "|", "}", "~">>] >>

\* the code of each character
CharCodes ==
  [ch \in UNION {{AsciiRuns[r].chars[k] : k \in 1..Len(AsciiRuns[r].chars)} :
                   r \in 1..Len(AsciiRuns)} |->
     LET run == CHOOSE r \in 1..Len(AsciiRuns) :
                  \E k \in 1..Len(AsciiRuns[r].chars) : AsciiRuns[r].chars[k] = ch
         k == CHOOSE k \in 1..Len(AsciiRuns[run].chars) : AsciiRuns[run].chars[k] = ch
     IN AsciiRuns[run].first + k - 1]

\* the byte Buffer.from(text) holds for an ASCII character
CharCode(ch) == CharCodes[ch]

Base64Chars ==
  <<"A", "B", "C", "D", "E", "F", "G", "H", "I", "J", "K", "L", "M", "N",
    "O", "P", "Q", "R", "S", "T", "U", "V", "W", "X", "Y", "Z", "a", "b",
    "c", "d", "e", "f", "g", "h", "i", "j", "k", "l", "m", "n", "o", "p",
    "q", "r", "s", "t", "u", "v", "w", "x", "y", "z", "0", "1", "2", "3",
    "4", "5", "6", "7", "8", "9", "+", "/">>

Base64Char(sextet) == Base64Chars[sextet + 1]

\* buffer.toString("base64")
RECURSIVE Base64(_)
Base64(bytes) ==
  IF Len(bytes) = 0 THEN <<>>
  ELSE IF Len(bytes) = 1
  THEN <<Base64Char(bytes[1] \div 4), Base64Char((bytes[1] % 4) * 16), "=", "=">>
  ELSE IF Len(bytes) = 2
  THEN <<Base64Char(bytes[1] \div 4),
         Base64Char((bytes[1] % 4) * 16 + bytes[2] \div 16),
         Base64Char((bytes[2] % 16) * 4), "=">>
  ELSE <<Base64Char(bytes[1] \div 4),
         Base64Char((bytes[1] % 4) * 16 + bytes[2] \div 16),
         Base64Char((bytes[2] % 16) * 4 + bytes[3] \div 64),
         Base64Char(bytes[3] % 64)>>
         \o Base64(SubSeq(bytes, 4, Len(bytes)))

\* String.prototype.substring(from, to), 0 <= from <= to
substring(text, from, to) == SubSeq(text, from + 1, Min2(to, Len(text)))

generateCacheKey(chat) ==
  LET users == SelectSeq(chat, LAMBDA msg : msg.role = "user")
      contentHash ==
        JoinTexts([k \in 1..Len(users) |->
                     users[k].id \o <<":">>
                       \o substring(users[k].content, 0, keyPrefixLength)],
                  <<"|">>)
  IN <<"s", "e", "n", "t", "i", "m", "e", "n", "t", "_">>
       \o Base64([k \in 1..Len(contentHash) |-> CharCode(contentHash[k])])

\* getCachedSentiment: the entry returned at time clock, as a set of at most
\* one element (the Map holds one entry per key)
\* the lookup with an entry of exactly CACHE_TTL still served
getCachedSentiment_AtMostTtl(cache, chat, clock) ==
  LET key == generateCacheKey(chat)
  IN {cached \in cache :
        /\ cached.key = key
        /\ clock - cached.timestamp <= CACHE_TTL}

getCachedSentiment(cache, chat, clock) ==
  LET key == generateCacheKey(chat)
  IN {cached \in cache :
        /\ cached.key = key
        /\ clock - cached.timestamp < CACHE_TTL}

\* cacheSentimentResult: Map.set replaces the entry of the key.  computedFrom
\* records the chat the result was computed from; the code does not keep it.
cacheSentimentResult(cache, chat, res, clock) ==
  LET key == generateCacheKey(chat)
  IN {cached \in cache : cached.key # key}
       \cup {[key |-> key, timestamp |-> clock, result |-> res,
              computedFrom |-> chat]}

MaxCalls == 2
MaxTicks == 2

\* the clock advances by half the time to live
TickMs == 1800000

contentLongA ==
  <<"I", " ", "h", "a", "v", "e", " ", "l", "e", "d", " ", "b", "a", "c",
    "k", "e", "n", "d", " ", "t", "e", "a", "m", "s", " ", "f", "o", "r",
    " ", "t", "e", "n", " ", "y", "e", "a", "r", "s", " ", "a", "t", " ",
    "a", " ", "b", "a", "n", "k", ".", " ", "J", "a", "v", "a">>
contentLongB ==
  <<"I", " ", "h", "a", "v", "e", " ", "l", "e", "d", " ", "b", "a", "c",
    "k", "e", "n", "d", " ", "t", "e", "a", "m", "s", " ", "f", "o", "r",
    " ", "t", "e", "n", " ", "y", "e", "a", "r", "s", " ", "a", "t", " ",
    "a", " ", "b", "a", "n", "k", ".", " ", "R", "u", "s", "t">>
contentJoined == <<"x", "|", ":", "y">>
contentX == <<"x">>
contentY == <<"y">>
idOne == <<"1">>

\* the chats handed to analyzeSentimentWithCache
CacheChats ==
  { <<Message("user", contentLongA, TimestampAt(1), idOne)>>,
    <<Message("user", contentLongB, TimestampAt(1), idOne)>>,
    <<Message("user", contentLongA, TimestampAt(1), idOne),
      Message("assistant", contentPlain, TimestampAt(2), <<>>)>>,
    <<Message("user", contentJoined, TimestampAt(1), <<>>)>>,
    <<Message("user", contentX, TimestampAt(1), <<>>),
      Message("user", contentY, TimestampAt(2), <<>>)>>,
    <<>> }

\* the completions of a cached call: every one fails, or every one answers in
\* full with the same sample
CacheCallOutcomes(chat, configured) ==
  LET n == UserCount(chat)
      full(t) == EmotionResults([k \in 1..t |-> ModelSample(Text("enthusiastic"), Num(90))])
  IN IF n = 0 \/ ~configured THEN {ModelOutcomes(ModelFailed, <<>>)}
     ELSE { ModelOutcomes(ModelFailed, [b \in 1..BatchCount(n) |-> ModelFailed]),
            ModelOutcomes(OverallAnswer(Text("positive"), Num(80), Num(70), Num(20), Num(90)),
                          [b \in 1..BatchCount(n) |-> full(BatchTargets(n, b))]) }

\* the results analyzeSentiment can come to for each chat, mode and time of
\* the cached calls
CachedAnalyses ==
  [chat \in CacheChats, configured \in BOOLEAN, clock \in {t * TickMs : t \in 0..MaxTicks} |->
     {analyzeSentiment(chat, configured, outcomes, clock).result :
        outcomes \in CacheCallOutcomes(chat, configured)}]

\* a call, with the clock at its start and the timestamp of the entry its
\* result was served from (a hit, which returns at once) or stored under (a
\* miss, which returns as it stores)
Call(chat, pc, res, computedFrom, hit, started, stored) ==
  [messages |-> chat, pc |-> pc, result |-> res,
   computedFrom |-> computedFrom, hit |-> hit,
   started |-> started, stored |-> stored]

\* analyzeSentimentWithCache up to its await, called with one of the given
\* chats: a hit returns the cached result, a miss starts analyzeSentiment
CachedCallStartOn(chats) ==
  /\ Len(calls) < MaxCalls
  /\ \E chat \in chats :
       LET cached == getCachedSentiment(sentimentCache, chat, now)
       IN IF cached # {}
          THEN LET hit == CHOOSE c \in cached : TRUE
               IN calls' = Append(calls,
                                  Call(chat, "returned", hit.result, hit.computedFrom, TRUE,
                                       now, hit.timestamp))
          ELSE calls' = Append(calls, Call(chat, "analyzing", None, None, FALSE,
                                              now, now))
  /\ UNCHANGED <<sentimentCache, envVars>>
  /\ UNCHANGED notCacheVars

CachedCallStart == CachedCallStartOn(CacheChats)

\* analyzeSentimentWithCache after its await: the result is stored and returned
CachedCallFinish ==
  /\ \E i \in 1..Len(calls) :
       /\ calls[i].pc = "analyzing"
       /\ \E r \in CachedAnalyses[calls[i].messages, openaiConfigured, now] :
            LET chat == calls[i].messages
            IN /\ sentimentCache' = cacheSentimentResult(sentimentCache, chat, r, now)
               /\ calls' = [calls EXCEPT ![i] = Call(chat, "returned", r, chat, FALSE,
                                              calls[i].started, now)]
  /\ UNCHANGED envVars
  /\ UNCHANGED notCacheVars

\* time passes between the steps of the calls
Tick ==
  /\ now < MaxTicks * TickMs
  /\ now' = now + TickMs
  /\ UNCHANGED <<openaiConfigured, cacheVars>>
  /\ UNCHANGED notCacheVars

InitCache ==
  /\ sentimentCache = {}
  /\ calls = <<>>
  /\ openaiConfigured \in BOOLEAN
  /\ now = 0
  /\ CalIdle /\ SmoothIdle /\ BiasIdle /\ SentIdle /\ ShiftIdle /\ HandlerIdle

NextCache == CachedCallStart \/ CachedCallFinish \/ Tick

SpecCache == InitCache /\ [][NextCache]_vars

\* the caching layer called with two chats of different keys
TtlChats ==
  { <<Message("user", contentLongA, TimestampAt(1), idOne)>>,
    <<Message("user", contentX, TimestampAt(1), <<>>),
      Message("user", contentY, TimestampAt(2), <<>>)>> }

TtlCallStart == CachedCallStartOn(TtlChats)

NextTtl == TtlCallStart \/ CachedCallFinish \/ Tick

SpecTtl == InitCache /\ [][NextTtl]_vars

\* the ids and the full contents of the user messages of a chat
UserIdsAndContents(chat) ==
  LET users == SelectSeq(chat, LAMBDA msg : msg.role = "user")
  IN [k \in 1..Len(users) |-> <<users[k].id, users[k].content>>]

\* C9: a call of analyzeSentimentWithCache returns only a result that was
\* computed from an input with the same user-message ids and the same full
\* user-message contents
C9_CacheReturnsOwnResult ==
  \A i \in 1..Len(calls) :
    calls[i].pc = "returned" =>
      UserIdsAndContents(calls[i].computedFrom) = UserIdsAndContents(calls[i].messages)

\* C30: analyzeSentimentWithCache serves a stored result only while its age
\* is strictly less than CACHE_TTL; a call that finds the entry one hour old
\* or older runs analyzeSentiment again and overwrites the entry with the
\* new result and a fresh timestamp, so no result older than one hour is
\* returned
C30_ServedOnlyWhileFresh ==
  \A i \in 1..Len(calls) :
    calls[i].pc = "returned" =>
      /\ calls[i].hit => calls[i].started - calls[i].stored < CACHE_TTL
      /\ ~calls[i].hit =>
           \E cached \in sentimentCache :
             /\ cached.key = generateCacheKey(calls[i].messages)
             /\ cached.timestamp >= calls[i].stored
             /\ \E j \in 1..Len(calls) :
                  /\ calls[j].pc = "returned" /\ ~calls[j].hit
                  /\ generateCacheKey(calls[j].messages) = cached.key
                  /\ calls[j].stored = cached.timestamp
                  /\ calls[j].result = cached.result

\* the second call finds the first call's entry exactly one hour old,
\* analyses again and leaves its own entry
C30_Witness ==
  /\ Len(calls) = 2
  /\ calls[1].messages = calls[2].messages
  /\ calls[1].pc = "returned" /\ ~calls[1].hit
  /\ calls[2].pc = "returned" /\ ~calls[2].hit
  /\ calls[2].started >= calls[1].stored
  /\ calls[2].started - calls[1].stored = CACHE_TTL
  /\ \E cached \in sentimentCache :
       /\ cached.key = generateCacheKey(calls[2].messages)
       /\ cached.timestamp = calls[2].stored
       /\ cached.result = calls[2].result

\* a call served from an entry short of one hour old
ServedFromFreshEntry ==
  \E i \in 1..Len(calls) :
    /\ calls[i].hit
    /\ calls[i].started - calls[i].stored = TickMs

----------------------------------------------------------------------------
(***************************************************************************)
(* detectEmotionalShifts and detectMessageEmotions (sentimentAnalysis.ts,  *)
(* second copy of the file).  Scores are in tenths.  The source adds the   *)
(* weights as doubles; for up to five hits of one emotion and up to five   *)
(* messages the doubles give the factors computed here exactly.            *)
(***************************************************************************)
\* emotionIndicators, in the order Object.entries visits them; weights in tenths
emotionIndicators ==
  <<
    [emotion |-> "enthusiastic", weight |-> 12,
     keywords |-> <<
        <<"e", "x", "c", "i", "t", "e", "d">>,
        <<"p", "a", "s", "s", "i", "o", "n", "a", "t", "e">>,
        <<"l", "o", "v", "e">>,
        <<"t", "h", "r", "i", "l", "l", "e", "d">>,
        <<"g", "r", "e", "a", "t">>,
        <<"a", "m", "a", "z", "i", "n", "g">>,
        <<"e", "x", "c", "e", "l", "l", "e", "n", "t">>
     >>,
     patterns |-> <<
        \* /!{1,}/g
        Pattern(RegExp(<<OneOrMore("!")>>, FALSE),
                TRUE, 0),
        \* /\blove (this|that|the)\b/gi
        Pattern(RegExp(<<WordBoundary, Literal("l"), Literal("o"),
                        Literal("v"), Literal("e"), Literal(" "),
                        Alternatives(<< <<"t", "h", "i", "s">>, <<"t", "h", "a", "t">>, <<"t", "h", "e">> >>),
                        WordBoundary>>, TRUE),
                TRUE, 1)
     >>],
    [emotion |-> "confident", weight |-> 14,
     keywords |-> <<
        <<"c", "e", "r", "t", "a", "i", "n">>,
        <<"s", "u", "r", "e">>,
        <<"c", "o", "n", "f", "i", "d", "e", "n", "t">>,
        <<"d", "e", "f", "i", "n", "i", "t", "e", "l", "y">>,
        <<"a", "b", "s", "o", "l", "u", "t", "e", "l", "y">>,
        <<"w", "i", "t", "h", "o", "u", "t", " ", "d", "o", "u", "b", "t">>,
        <<"c", "l", "e", "a", "r", "l", "y">>
     >>,
     patterns |-> <<
        \* /\bI know\b/gi
        Pattern(RegExp(<<WordBoundary, Literal("I"), Literal(" "),
                        Literal("k"), Literal("n"), Literal("o"),
                        Literal("w"), WordBoundary>>, TRUE),
                TRUE, 0),
        \* /\bI'm sure\b/gi
        Pattern(RegExp(<<WordBoundary, Literal("I"), Literal("'"),
                        Literal("m"), Literal(" "), Literal("s"),
                        Literal("u"), Literal("r"), Literal("e"),
                        WordBoundary>>, TRUE),
                TRUE, 0),
        \* /\bI've done this\b/gi
        Pattern(RegExp(<<WordBoundary, Literal("I"), Literal("'"),
                        Literal("v"), Literal("e"), Literal(" "),
                        Literal("d"), Literal("o"), Literal("n"),
                        Literal("e"), Literal(" "), Literal("t"),
                        Literal("h"), Literal("i"), Literal("s"),
                        WordBoundary>>, TRUE),
                TRUE, 0)
     >>],
    [emotion |-> "engaged", weight |-> 11,
     keywords |-> <<
        <<"i", "n", "t", "e", "r", "e", "s", "t", "i", "n", "g">>,
        <<"c", "u", "r", "i", "o", "u", "s">>,
        <<"f", "a", "s", "c", "i", "n", "a", "t", "i", "n", "g">>,
        <<"t", "e", "l", "l", " ", "m", "e", " ", "m", "o", "r", "e">>,
        <<"i", "n", "t", "r", "i", "g", "u", "i", "n", "g">>,
        <<"c", "o", "m", "p", "e", "l", "l", "i", "n", "g">>
     >>,
     patterns |-> <<
        \* /\?$/m
        Pattern(RegExp(<<Literal("?"), LineEnd>>, FALSE),
                FALSE, 0),
        \* /\bfor example\b/gi
        Pattern(RegExp(<<WordBoundary, Literal("f"), Literal("o"),
                        Literal("r"), Literal(" "), Literal("e"),
                        Literal("x"), Literal("a"), Literal("m"),
                        Literal("p"), Literal("l"), Literal("e"),
                        WordBoundary>>, TRUE),
                TRUE, 0),
        \* /\bspecifically\b/gi
        Pattern(RegExp(<<WordBoundary, Literal("s"), Literal("p"),
                        Literal("e"), Literal("c"), Literal("i"),
                        Literal("f"), Literal("i"), Literal("c"),
                        Literal("a"), Literal("l"), Literal("l"),
                        Literal("y"), WordBoundary>>, TRUE),
                TRUE, 0),
        \* /\bin my experience\b/gi
        Pattern(RegExp(<<WordBoundary, Literal("i"), Literal("n"),
                        Literal(" "), Literal("m"), Literal("y"),
                        Literal(" "), Literal("e"), Literal("x"),
                        Literal("p"), Literal("e"), Literal("r"),
                        Literal("i"), Literal("e"), Literal("n"),
                        Literal("c"), Literal("e"), WordBoundary>>, TRUE),
                TRUE, 0)
     >>],
    [emotion |-> "thoughtful", weight |-> 10,
     keywords |-> <<
        <<"t", "h", "i", "n", "k">>,
        <<"c", "o", "n", "s", "i", "d", "e", "r">>,
        <<"r", "e", "f", "l", "e", "c", "t">>,
        <<"a", "n", "a", "l", "y", "z", "e">>,
        <<"e", "v", "a", "l", "u", "a", "t", "e">>,
        <<"a", "s", "s", "e", "s", "s">>,
        <<"p", "o", "n", "d", "e", "r">>
     >>,
     patterns |-> <<
        \* /\bon one hand\b/gi
        Pattern(RegExp(<<WordBoundary, Literal("o"), Literal("n"),
                        Literal(" "), Literal("o"), Literal("n"),
                        Literal("e"), Literal(" "), Literal("h"),
                        Literal("a"), Literal("n"), Literal("d"),
                        WordBoundary>>, TRUE),
                TRUE, 0),
        \* /\bon the other hand\b/gi
        Pattern(RegExp(<<WordBoundary, Literal("o"), Literal("n"),
                        Literal(" "), Literal("t"), Literal("h"),
                        Literal("e"), Literal(" "), Literal("o"),
                        Literal("t"), Literal("h"), Literal("e"),
                        Literal("r"), Literal(" "), Literal("h"),
                        Literal("a"), Literal("n"), Literal("d"),
                        WordBoundary>>, TRUE),
                TRUE, 0),
        \* /\bhowever\b/gi
        Pattern(RegExp(<<WordBoundary, Literal("h"), Literal("o"),
                        Literal("w"), Literal("e"), Literal("v"),
                        Literal("e"), Literal("r"), WordBoundary>>, TRUE),
                TRUE, 0),
        \* /\btherefore\b/gi
        Pattern(RegExp(<<WordBoundary, Literal("t"), Literal("h"),
                        Literal("e"), Literal("r"), Literal("e"),
                        Literal("f"), Literal("o"), Literal("r"),
                        Literal("e"), WordBoundary>>, TRUE),
                TRUE, 0)
     >>],
    [emotion |-> "neutral", weight |-> 9,
     keywords |-> <<
        <<"o", "k", "a", "y">>,
        <<"f", "i", "n", "e">>,
        <<"a", "l", "r", "i", "g", "h", "t">>,
        <<"u", "n", "d", "e", "r", "s", "t", "a", "n", "d">>,
        <<"s", "e", "e">>,
        <<"g", "o", "o", "d">>
     >>,
     patterns |-> <<
        \* /\bok\b/gi
        Pattern(RegExp(<<WordBoundary, Literal("o"), Literal("k"),
                        WordBoundary>>, TRUE),
                TRUE, 0),
        \* /^(yes|no)$/im
        Pattern(RegExp(<<LineStart,
                        Alternatives(<< <<"y", "e", "s">>, <<"n", "o">> >>),
                        LineEnd>>, TRUE),
                FALSE, 1),
        \* /\bmakes sense\b/gi
        Pattern(RegExp(<<WordBoundary, Literal("m"), Literal("a"),
                        Literal("k"), Literal("e"), Literal("s"),
                        Literal(" "), Literal("s"), Literal("e"),
                        Literal("n"), Literal("s"), Literal("e"),
                        WordBoundary>>, TRUE),
                TRUE, 0)
     >>],
    [emotion |-> "uncertain", weight |-> 8,
     keywords |-> <<
        <<"n", "o", "t", " ", "s", "u", "r", "e">>,
        <<"p", "o", "s", "s", "i", "b", "l", "y">>,
        <<"p", "e", "r", "h", "a", "p", "s">>,
        <<"m", "i", "g", "h", "t">>,
        <<"m", "a", "y", "b", "e">>,
        <<"c", "o", "u", "l", "d", " ", "b", "e">>,
        <<"I", " ", "g", "u", "e", "s", "s">>
     >>,
     patterns |-> <<
        \* /\bif I'm not mistaken\b/gi
        Pattern(RegExp(<<WordBoundary, Literal("i"), Literal("f"),
                        Literal(" "), Literal("I"), Literal("'"),
                        Literal("m"), Literal(" "), Literal("n"),
                        Literal("o"), Literal("t"), Literal(" "),
                        Literal("m"), Literal("i"), Literal("s"),
                        Literal("t"), Literal("a"), Literal("k"),
                        Literal("e"), Literal("n"), WordBoundary>>, TRUE),
                TRUE, 0),
        \* /\bkind of\b/gi
        Pattern(RegExp(<<WordBoundary, Literal("k"), Literal("i"),
                        Literal("n"), Literal("d"), Literal(" "),
                        Literal("o"), Literal("f"), WordBoundary>>, TRUE),
                TRUE, 0),
        \* /\bsort of\b/gi
        Pattern(RegExp(<<WordBoundary, Literal("s"), Literal("o"),
                        Literal("r"), Literal("t"), Literal(" "),
                        Literal("o"), Literal("f"), WordBoundary>>, TRUE),
                TRUE, 0)
     >>],
    [emotion |-> "nervous", weight |-> 7,
     keywords |-> <<
        <<"s", "o", "r", "r", "y">>,
        <<"a", "p", "o", "l", "o", "g", "i", "z", "e">>,
        <<"n", "e", "r", "v", "o", "u", "s">>,
        <<"w", "o", "r", "r", "i", "e", "d">>,
        <<"a", "n", "x", "i", "e", "t", "y">>,
        <<"c", "o", "n", "c", "e", "r", "n", "e", "d">>,
        <<"s", "t", "r", "e", "s", "s">>
     >>,
     patterns |-> <<
        \* /um+/gi
        Pattern(RegExp(<<Literal("u"), OneOrMore("m")>>, TRUE),
                TRUE, 0),
        \* /uh+/gi
        Pattern(RegExp(<<Literal("u"), OneOrMore("h")>>, TRUE),
                TRUE, 0),
        \* /\bI'm sorry\b/gi
        Pattern(RegExp(<<WordBoundary, Literal("I"), Literal("'"),
                        Literal("m"), Literal(" "), Literal("s"),
                        Literal("o"), Literal("r"), Literal("r"),
                        Literal("y"), WordBoundary>>, TRUE),
                TRUE, 0),
        \* /\bI apologize\b/gi
        Pattern(RegExp(<<WordBoundary, Literal("I"), Literal(" "),
                        Literal("a"), Literal("p"), Literal("o"),
                        Literal("l"), Literal("o"), Literal("g"),
                        Literal("i"), Literal("z"), Literal("e"),
                        WordBoundary>>, TRUE),
                TRUE, 0)
     >>],
    [emotion |-> "defensive", weight |-> 6,
     keywords |-> <<
        <<"a", "c", "t", "u", "a", "l", "l", "y">>,
        <<"t", "o", " ", "b", "e", " ", "f", "a", "i", "r">>,
        <<"t", "o", " ", "b", "e", " ", "h", "o", "n", "e", "s", "t">>,
        <<"i", "n", " ", "f", "a", "c", "t">>,
        <<"c", "o", "n", "t", "r", "a", "r", "y", " ", "t", "o">>,
        <<"d", "e", "f", "e", "n", "d">>
     >>,
     patterns |-> <<
        \* /\bI didn't\b/gi
        Pattern(RegExp(<<WordBoundary, Literal("I"), Literal(" "),
                        Literal("d"), Literal("i"), Literal("d"),
                        Literal("n"), Literal("'"), Literal("t"),
                        WordBoundary>>, TRUE),
                TRUE, 0),
        \* /\bThat's not\b/gi
        Pattern(RegExp(<<WordBoundary, Literal("T"), Literal("h"),
                        Literal("a"), Literal("t"), Literal("'"),
                        Literal("s"), Literal(" "), Literal("n"),
                        Literal("o"), Literal("t"), WordBoundary>>, TRUE),
                TRUE, 0),
        \* /\bI disagree\b/gi
        Pattern(RegExp(<<WordBoundary, Literal("I"), Literal(" "),
                        Literal("d"), Literal("i"), Literal("s"),
                        Literal("a"), Literal("g"), Literal("r"),
                        Literal("e"), Literal("e"), WordBoundary>>, TRUE),
                TRUE, 0),
        \* /\bI meant\b/gi
        Pattern(RegExp(<<WordBoundary, Literal("I"), Literal(" "),
                        Literal("m"), Literal("e"), Literal("a"),
                        Literal("n"), Literal("t"), WordBoundary>>, TRUE),
                TRUE, 0)
     >>],
    [emotion |-> "evasive", weight |-> 5,
     keywords |-> <<
        <<"g", "e", "n", "e", "r", "a", "l", "l", "y">>,
        <<"t", "y", "p", "i", "c", "a", "l", "l", "y">>,
        <<"u", "s", "u", "a", "l", "l", "y">>,
        <<"o", "f", "t", "e", "n">>,
        <<"s", "o", "m", "e", "t", "i", "m", "e", "s">>,
        <<"o", "c", "c", "a", "s", "i", "o", "n", "a", "l", "l", "y">>
     >>,
     patterns |-> <<
        \* /\bI'd rather not\b/gi
        Pattern(RegExp(<<WordBoundary, Literal("I"), Literal("'"),
                        Literal("d"), Literal(" "), Literal("r"),
                        Literal("a"), Literal("t"), Literal("h"),
                        Literal("e"), Literal("r"), Literal(" "),
                        Literal("n"), Literal("o"), Literal("t"),
                        WordBoundary>>, TRUE),
                TRUE, 0),
        \* /\bcan we move on\b/gi
        Pattern(RegExp(<<WordBoundary, Literal("c"), Literal("a"),
                        Literal("n"), Literal(" "), Literal("w"),
                        Literal("e"), Literal(" "), Literal("m"),
                        Literal("o"), Literal("v"), Literal("e"),
                        Literal(" "), Literal("o"), Literal("n"),
                        WordBoundary>>, TRUE),
                TRUE, 0),
        \* /\blet's talk about\b/gi
        Pattern(RegExp(<<WordBoundary, Literal("l"), Literal("e"),
                        Literal("t"), Literal("'"), Literal("s"),
                        Literal(" "), Literal("t"), Literal("a"),
                        Literal("l"), Literal("k"), Literal(" "),
                        Literal("a"), Literal("b"), Literal("o"),
                        Literal("u"), Literal("t"), WordBoundary>>, TRUE),
                TRUE, 0)
     >>]
  >>

\* interface EmotionData
EmotionData(emotion, intensity, messageIndex, timestamp) ==
  [emotion |-> emotion, intensity |-> intensity,
   messageIndex |-> messageIndex, timestamp |-> timestamp]

\* scores[emotion] of one message: a hit per keyword the text includes and
\* per match of a pattern, times the weight
IndicatorScore(text, data) ==
  data.weight *
    ( Cardinality({k \in 1..Len(data.keywords) : includes(text, data.keywords[k])})
    + SumSeq([k \in 1..Len(data.patterns) |-> MatchLength(text, data.patterns[k])],
             Len(data.patterns)) )

\* dominantEmotion: the first emotion holding maxScore, or the prediction of
\* the interview stage when maxScore < 0.5
DominantEmotion(table, scores, maxScore, index, d) ==
  IF maxScore < 5
  THEN IF 4 * index < d THEN "neutral"
       ELSE IF 2 * index < d THEN "engaged"
       ELSE IF 4 * index < 3 * d THEN "confident"
       ELSE "thoughtful"
  ELSE table[CHOOSE k \in 1..Len(table) :
               /\ scores[k] = maxScore
               /\ \A m \in 1..(k - 1) : scores[m] < maxScore].emotion

SentenceMarks == {".", "!", "?"}

\* text.split(/[.!?]+/).length - 1: the runs of sentence marks
SentenceCount(text) ==
  Cardinality({k \in 1..Len(text) :
                 /\ text[k] \in SentenceMarks
                 /\ (k = Len(text) \/ text[k + 1] \notin SentenceMarks)})

\* Math.floor(20 * (progress < 0.5 ? progress * 2 : 2 - progress * 2)),
\* progress = index / d
PositionFactor(index, d) ==
  IF 2 * index < d THEN (40 * index) \div d ELSE (40 * (d - index)) \div d

\* intensity: 40 + lengthFactor + wordFactor + sentenceFactor + emotionFactor
\* + positionFactor, clamped to 0..100; emotionFactor is
\* Math.min(25, Math.floor(maxScore * 15))
MessageIntensity(text, maxScore, index, d) ==
  Max2(0, Min2(100, 40 + Min2(20, Len(text) \div 150)
                       + Min2(15, SplitLength(text) \div 20)
                       + Min2(10, SentenceCount(text))
                       + Min2(25, (maxScore * 15) \div 10)
                       + PositionFactor(index, d)))

\* the EmotionData of messages[index + 1], given its scores
MessageEmotionData(table, msg, scores, n, index, clock) ==
  EmotionData(DominantEmotion(table, scores, MaxScore(scores), index, Max2(1, n - 1)),
              MessageIntensity(toLowerCase(msg.content), MaxScore(scores),
                               index, Max2(1, n - 1)),
              index,
              IF msg.timestamp # 0 THEN msg.timestamp
              ELSE clock - (n - index) * 60000)

detectMessageEmotions(table, candidateMessages, clock) ==
  [k \in 1..Len(candidateMessages) |->
     MessageEmotionData(table, candidateMessages[k],
                        [e \in 1..Len(table) |->
                           IndicatorScore(toLowerCase(candidateMessages[k].content),
                                          table[e])],
                        Len(candidateMessages), k - 1, clock)]

\* getPrevCategory / getCurrCategory over emotionCategories
EmotionCategory(emotion) ==
  IF emotion \in {"enthusiastic", "confident", "engaged"} THEN "positive"
  ELSE IF emotion \in {"thoughtful", "neutral"} THEN "neutral"
  ELSE IF emotion \in {"uncertain", "nervous", "defensive", "evasive",
                       "disinterested"} THEN "negative"
  ELSE "neutral"

significantIntensityChange == 20

\* the condition with the label and intensity tests left out
IsShift_GapOnly(previous, current) ==
  current.timestamp - previous.timestamp < 600 * 1000

\* the condition under which the loop records a shift; timeDiff < 600 with
\* timeDiff = (current.timestamp - previous.timestamp) / 1000
IsShift(previous, current) ==
  /\ current.emotion # previous.emotion
       \/ Abs(current.intensity - previous.intensity) >= significantIntensityChange
  /\ current.timestamp - previous.timestamp < 600 * 1000

\* the type rule with the direction of the intensity ignored
ShiftType_CategoryOnly(previous, current) ==
  IF EmotionCategory(current.emotion) = "positive" THEN "positive"
  ELSE IF EmotionCategory(current.emotion) = "negative" THEN "negative"
  ELSE "neutral"

ShiftType(previous, current) ==
  IF EmotionCategory(previous.emotion) # EmotionCategory(current.emotion)
  THEN IF EmotionCategory(current.emotion) = "positive" THEN "positive"
       ELSE IF EmotionCategory(current.emotion) = "negative" THEN "negative"
       ELSE "neutral"
  ELSE IF Abs(current.intensity - previous.intensity) >= significantIntensityChange
  THEN IF current.intensity > previous.intensity
            /\ EmotionCategory(current.emotion) = "positive" THEN "positive"
       ELSE IF current.intensity < previous.intensity
            /\ EmotionCategory(current.emotion) = "positive" THEN "negative"
       ELSE IF current.intensity > previous.intensity
            /\ EmotionCategory(current.emotion) = "negative" THEN "negative"
       ELSE IF current.intensity < previous.intensity
            /\ EmotionCategory(current.emotion) = "negative" THEN "positive"
       ELSE "neutral"
  ELSE "neutral"

\* interface EmotionalShift, as pushed by the loop
EmotionalShift(previous, current) ==
  [from |-> [emotion |-> previous.emotion, intensity |-> previous.intensity,
             messageIndex |-> previous.messageIndex],
   to   |-> [emotion |-> current.emotion, intensity |-> current.intensity,
             messageIndex |-> current.messageIndex],
   type |-> ShiftType(previous, current),
   timestamp |-> current.timestamp]

\* shifts after the iterations i = 1 .. last of the loop over emotions
RECURSIVE ShiftsUpTo(_, _)
ShiftsUpTo(emotions, last) ==
  IF last < 1 THEN <<>>
  ELSE ShiftsUpTo(emotions, last - 1)
         \o (IF IsShift(emotions[last], emotions[last + 1])
             THEN <<EmotionalShift(emotions[last], emotions[last + 1])>>
             ELSE <<>>)

\* the verdict without its last alternative, shifts.length > 2
IsSignificant_NegativeOnly(shifts) ==
  /\ Len(shifts) > 0
  /\ \/ Cardinality({k \in 1..Len(shifts) : shifts[k].type = "negative"}) > 1
     \/ \E k \in 1..Len(shifts) :
          /\ shifts[k].type = "negative"
          /\ Abs(shifts[k].to.intensity - shifts[k].from.intensity) > 30

\* significant: more than one negative shift, a negative shift of more than
\* 30 in intensity, or more than two shifts
IsSignificant(shifts) ==
  /\ Len(shifts) > 0
  /\ \/ Cardinality({k \in 1..Len(shifts) : shifts[k].type = "negative"}) > 1
     \/ \E k \in 1..Len(shifts) :
          /\ shifts[k].type = "negative"
          /\ Abs(shifts[k].to.intensity - shifts[k].from.intensity) > 30
     \/ Len(shifts) > 2

ShiftResult(shifts) == [shifts |-> shifts, significant |-> IsSignificant(shifts)]

\* the emotions array of the call: detectMessageEmotions of the user
\* messages, or nothing when the call returns before computing it
ShiftEmotions(chat, clock) ==
  IF Len(SelectSeq(chat, LAMBDA msg : msg.role = "user")) < 3 THEN <<>>
  ELSE detectMessageEmotions(emotionIndicators,
                             SelectSeq(chat, LAMBDA msg : msg.role = "user"), clock)

\* detectEmotionalShifts from the emotions array on
ShiftsOf(emotions) == ShiftResult(ShiftsUpTo(emotions, Len(emotions) - 1))

detectEmotionalShifts(chat, clock) == ShiftsOf(ShiftEmotions(chat, clock))

\* detectEmotionalShifts is handed chats of at most MaxShiftMessages messages
MaxShiftMessages == 3

\* contents: a neutral, two evasive, a confident and a thoughtful answer, and
\* one without any indicator
contentOk == <<"o", "k">>
contentOften == <<"o", "f", "t", "e", "n">>
contentEvasive == <<"o", "f", "t", "e", "n", ".", " ", "u", "s", "u", "a", "l", "l", "y",
      ".", " ", "s", "o", "m", "e", "t", "i", "m", "e", "s", ".", " ", "a",
      ".", " ", "b", ".">>
contentKnow == <<"I", " ", "k", "n", "o", "w", "!">>
contentBlank == <<"x">>
contentThink == <<"t", "h", "i", "n", "k">>

\* a message later than its neighbours: exactly 600 s, or 599 s, after the
\* message before it when that one is on the 10 s grid
LateBy(kind) == IF kind = "late" THEN 590000 ELSE IF kind = "almostLate" THEN 589000 ELSE 0

ShiftMessage(kind, k) ==
  CASE kind = "ok"         -> Message("user", contentOk, TimestampAt(k), <<>>)
    [] kind = "often"      -> Message("user", contentOften, TimestampAt(k), <<>>)
    [] kind = "evasive"    -> Message("user", contentEvasive, TimestampAt(k), <<>>)
    [] kind = "know"       -> Message("user", contentKnow, TimestampAt(k), <<>>)
    [] kind = "blank"      -> Message("user", contentBlank, TimestampAt(k), <<>>)
    [] kind = "think"      -> Message("user", contentThink, TimestampAt(k), <<>>)
    [] kind = "late"       -> Message("user", contentOk, TimestampAt(k) + LateBy(kind), <<>>)
    [] kind = "almostLate" -> Message("user", contentOk, TimestampAt(k) + LateBy(kind), <<>>)
    [] kind = "undated"    -> Message("user", contentBlank, 0, <<>>)
    [] kind = "assistant"  -> Message("assistant", contentOk, TimestampAt(k), <<>>)

ShiftKinds == {"ok", "often", "evasive", "know", "blank", "think", "late",
               "almostLate", "undated", "assistant"}

\* the user messages of a chat
UserMessagesOf(chat) == SelectSeq(chat, LAMBDA msg : msg.role = "user")

\* one call of detectEmotionalShifts(messages)
DetectShiftsCall ==
  /\ shiftReport = None
  /\ shiftEmotions' = ShiftEmotions(shiftMessages, now)
  /\ shiftReport' = ShiftsOf(shiftEmotions')
  /\ UNCHANGED <<shiftMessages, envVars>>
  /\ UNCHANGED notShiftVars

\* the kinds of the chats one message longer than MaxShiftMessages
LongChatKinds == {"ok", "often", "know"}

InitShift ==
  /\ \/ \E n \in 0..MaxShiftMessages :
          \E kinds \in [1..n -> ShiftKinds] :
            shiftMessages = [k \in 1..n |-> ShiftMessage(kinds[k], k)]
     \/ \E kinds \in [1..(MaxShiftMessages + 1) -> LongChatKinds] :
          shiftMessages = [k \in 1..(MaxShiftMessages + 1) |->
                             ShiftMessage(kinds[k], k)]
  /\ shiftEmotions = <<>>
  /\ shiftReport = None
  /\ openaiConfigured = FALSE
  /\ now = SentimentClock
  /\ CalIdle /\ SmoothIdle /\ BiasIdle /\ SentIdle /\ CacheIdle /\ HandlerIdle

NextShift == DetectShiftsCall

SpecShift == InitShift /\ [][NextShift]_vars

----------------------------------------------------------------------------
ShiftsDetected == shiftReport # None

\* the trajectory of a chat: the emotions of its user messages
Trajectory == detectMessageEmotions(emotionIndicators, UserMessagesOf(shiftMessages), now)

AllSamplesAlike(emotions) ==
  \A i, j \in 1..Len(emotions) :
    /\ emotions[i].emotion = emotions[j].emotion
    /\ emotions[i].intensity = emotions[j].intensity

\* C15: when all samples of the trajectory carry the same label and the
\* same intensity, whatever its length and timestamps, detectEmotionalShifts
\* returns shifts = [] and significant = false
C15_UniformTrajectoryNoShifts ==
  (ShiftsDetected /\ AllSamplesAlike(Trajectory)) =>
    /\ shiftReport.shifts = <<>>
    /\ shiftReport.significant = FALSE

\* a uniform trajectory of three samples has been scanned
C15_Witness ==
  /\ ShiftsDetected
  /\ Len(shiftEmotions) >= 3
  /\ AllSamplesAlike(shiftEmotions)
  /\ shiftReport.shifts = <<>>

\* the shift recorded for the pair of samples i - 1, i (messageIndex i - 1
\* and i), if any
RecordedFor(i) ==
  {k \in 1..Len(shiftReport.shifts) :
     /\ shiftReport.shifts[k].from.messageIndex = i - 1
     /\ shiftReport.shifts[k].to.messageIndex = i}

\* C19: for a trajectory of two or more samples and every adjacent pair: a
\* time gap of 600 s or more records no shift; otherwise a shift is
\* recorded exactly when the label changed or the intensities differ by 20
\* or more.  Fewer than 2 samples give no shifts.
C19_ShiftRecordedIff ==
  ShiftsDetected =>
    LET emotions == Trajectory
    IN /\ Len(emotions) < 2 => shiftReport.shifts = <<>>
       /\ \A i \in 1..(Len(emotions) - 1) :
            IF emotions[i + 1].timestamp - emotions[i].timestamp >= 600 * 1000
            THEN RecordedFor(i) = {}
            ELSE RecordedFor(i) # {} <=>
                   \/ emotions[i + 1].emotion # emotions[i].emotion
                   \/ Abs(emotions[i + 1].intensity - emotions[i].intensity) >= 20

\* the type the rule of C20 gives a shift
CategoryOf(emotion) ==
  CASE emotion \in {"enthusiastic", "confident", "engaged"} -> "positive"
    [] emotion \in {"uncertain", "nervous", "defensive", "evasive",
                    "disinterested"} -> "negative"
    [] OTHER -> "neutral"

RuleType(from, to) ==
  IF CategoryOf(from.emotion) # CategoryOf(to.emotion)
  THEN CategoryOf(to.emotion)
  ELSE IF Abs(to.intensity - from.intensity) < 20 THEN "neutral"
  ELSE CASE CategoryOf(to.emotion) = "positive" ->
              IF to.intensity > from.intensity THEN "positive" ELSE "negative"
         [] CategoryOf(to.emotion) = "negative" ->
              IF to.intensity > from.intensity THEN "negative" ELSE "positive"
         [] OTHER -> "neutral"

\* C20: every recorded shift has the type of the rule: the new category when
\* the category changed; with the category unchanged and an intensity delta
\* of 20 or more, positive for rising in a positive or falling in a negative
\* category, negative for the opposite, neutral in a neutral category; and
\* neutral for a smaller delta
C20_ShiftTypeRule ==
  ShiftsDetected =>
    \A k \in 1..Len(shiftReport.shifts) :
      shiftReport.shifts[k].type =
        RuleType(shiftReport.shifts[k].from, shiftReport.shifts[k].to)

\* a call has recorded a shift within one category whose type follows the
\* direction of the intensity: a falling intensity in a negative category
C20_Witness ==
  /\ ShiftsDetected
  /\ \E k \in 1..Len(shiftReport.shifts) :
       /\ CategoryOf(shiftReport.shifts[k].from.emotion) = "negative"
       /\ CategoryOf(shiftReport.shifts[k].to.emotion) = "negative"
       /\ shiftReport.shifts[k].to.intensity <= shiftReport.shifts[k].from.intensity - 20
       /\ shiftReport.shifts[k].type = "positive"

NegativeShifts(shifts) == {k \in 1..Len(shifts) : shifts[k].type = "negative"}

\* C21: significant is true exactly when more than one shift is negative, or
\* some negative shift changes the intensity by more than 30, or there are
\* more than two shifts; it is false when there is no shift
C21_SignificantIff ==
  ShiftsDetected =>
    /\ shiftReport.significant <=>
         \/ Cardinality(NegativeShifts(shiftReport.shifts)) > 1
         \/ \E k \in NegativeShifts(shiftReport.shifts) :
              Abs(shiftReport.shifts[k].to.intensity
                    - shiftReport.shifts[k].from.intensity) > 30
         \/ Len(shiftReport.shifts) > 2
    /\ (shiftReport.shifts = <<>>) => ~shiftReport.significant

\* three shifts, none of them negative, have been found significant
C21_Witness ==
  /\ ShiftsDetected
  /\ Len(shiftReport.shifts) > 2
  /\ NegativeShifts(shiftReport.shifts) = {}
  /\ shiftReport.significant

\* the other alternatives of the verdict, each on its own
TwoNegativeShifts ==
  /\ ShiftsDetected
  /\ Cardinality(NegativeShifts(shiftReport.shifts)) = 2
  /\ \A k \in NegativeShifts(shiftReport.shifts) :
       Abs(shiftReport.shifts[k].to.intensity
             - shiftReport.shifts[k].from.intensity) <= 30
  /\ shiftReport.significant

OneDramaticNegativeShift ==
  /\ ShiftsDetected
  /\ Cardinality(NegativeShifts(shiftReport.shifts)) = 1
  /\ Len(shiftReport.shifts) <= 2
  /\ \E k \in NegativeShifts(shiftReport.shifts) :
       Abs(shiftReport.shifts[k].to.intensity
             - shiftReport.shifts[k].from.intensity) > 30
  /\ shiftReport.significant

OneMildNegativeShift ==
  /\ ShiftsDetected
  /\ Cardinality(NegativeShifts(shiftReport.shifts)) = 1
  /\ ~shiftReport.significant

\* the trajectory the rule-based summarizer builds for the same chat
SummarizerJourney ==
  analyzeWithBasicApproach(UserMessagesOf(shiftMessages), now).emotionalJourney

SameSample(end, journey) ==
  /\ end.messageIndex + 1 \in 1..Len(journey)
  /\ end.emotion = journey[end.messageIndex + 1].emotion
  /\ end.intensity = journey[end.messageIndex + 1].intensity

\* C23: the from and to label and intensity of every shift returned by
\* detectEmotionalShifts are those of the samples at the same message
\* indices in the emotionalJourney the rule-based summarizer builds for the
\* same messages
C23_ShiftsOnSummarizerJourney ==
  ShiftsDetected =>
    \A k \in 1..Len(shiftReport.shifts) :
      /\ SameSample(shiftReport.shifts[k].from, SummarizerJourney)
      /\ SameSample(shiftReport.shifts[k].to, SummarizerJourney)

\* what does hold: the shifts are taken from the detector's own trajectory
ShiftsOnDetectorTrajectory ==
  ShiftsDetected =>
    \A k \in 1..Len(shiftReport.shifts) :
      /\ SameSample(shiftReport.shifts[k].from, shiftEmotions)
      /\ SameSample(shiftReport.shifts[k].to, shiftEmotions)

====
